---- MODULE Spec2Model ----
(***************************************************************************)
(* Model of the NFL play decision tree: the play store (DataStore), its    *)
(* star-schema index set (PlayIndexSet), the statistics factory            *)
(* (PlaySummaryFactory) and the decision tree node (DecisionNode).         *)
(*                                                                         *)
(* Conventions.  C++ vectors are TLA+ sequences, so the element the code   *)
(* addresses as v[i] is v[i + 1] here.  A PlayIterator is the position of  *)
(* the play in data (1-based).  An exception is modelled by an err field   *)
(* holding the message of the BaseException (or the name of the standard   *)
(* exception); NoError means the call returned normally.                   *)
(***************************************************************************)
EXTENDS Integers, Sequences, FiniteSets, TLC

VARIABLES
    data,              \* DataStore::_data
    storeIndexes,      \* DataStore::_indexes
    playSummaryStats,  \* DataStore::_playSummaryStats
    dataView,          \* the PlayIndexSet a client works on (main: dataView)
    siblings,          \* vector returned by the last splitIndexByCharacteristic
    tree,              \* the root DecisionNode (main: tree)
    pc,                \* where the client is: "load", "indexed", "view", "built", "failed"
    error,             \* message of the exception that ended the run
    lastOp,            \* history: the last operation and its argument
    before             \* history: what BuildTree or PruneTree started from

vars == <<data, storeIndexes, playSummaryStats, dataView, siblings, tree, pc,
          error, lastOp, before>>

(***************************************************************************)
(* Bounds of the model.                                                    *)
(***************************************************************************)
MaxPlays == 4          \* plays the loader inserts before a tree is built
MaxIndexedPlays == 3   \* plays the loader inserts for a client of the index set
MaxPrunes == 2         \* calls of pruneTree on a tree
MaxLoadedPlays == 6    \* plays the loader inserts from the list LoadedPlays
MaxLatePlays == 2      \* plays of a store that takes inserts after buildIndexes
MaxBulkPlays == 16     \* plays the loader inserts from the list BulkPlays

(***************************************************************************)
(* singlePlay.h: enumerations                                              *)
(***************************************************************************)
run_left == 0
pass_short_right == 3
field_goal == 9
punt == 10
PlayTypes == run_left .. punt

down_number == 0
distance_needed == 1
field_location == 2
time_remaining == 3
score_differential == 4
PlayCharacteristics == down_number .. score_differential

\* enum DistanceNeeded
over_twenty == 0
twenty_to_ten == 1
ten_to_four == 2
four_to_one == 3
one_or_less == 4
\* enum FieldLocation
own_red_zone == 0
middle == 1
opp_red_zone == 2
\* enum TimeRemaining
outside_two_minutes == 0
inside_two_minutes == 1
\* enum ScoreDifferential
down_over_fourteen == 0
down_over_seven == 1
down_seven_less == 2
even == 3
up_seven_less == 4
up_over_seven == 5
up_over_fourteen == 6

getPlayTypeCount == punt + 1

getCategoryCount(playCharacteristic) ==
    CASE playCharacteristic = down_number -> 5
      [] playCharacteristic = distance_needed -> one_or_less + 1
      [] playCharacteristic = field_location -> opp_red_zone + 1
      [] playCharacteristic = time_remaining -> inside_two_minutes + 1
      [] playCharacteristic = score_differential -> up_over_fourteen + 1
      [] OTHER -> 0

distanceToDistanceNeeded(distanceNeeded) ==
    IF distanceNeeded <= 1 THEN one_or_less
    ELSE IF distanceNeeded <= 4 THEN four_to_one
    ELSE IF distanceNeeded <= 10 THEN ten_to_four
    ELSE IF distanceNeeded < 20 THEN twenty_to_ten
    ELSE over_twenty

yardsToFieldLocation(yardLine) ==
    IF yardLine >= 90 THEN own_red_zone
    ELSE IF yardLine > 10 THEN middle
    ELSE opp_red_zone

minutesToTimeRemaining(minutes) ==
    IF (minutes < 2) \/ ((minutes >= 30) /\ (minutes < 32))
    THEN inside_two_minutes ELSE outside_two_minutes

scoreToScoreDifferential(ownScore, oppScore) ==
    LET scoreDiff == ownScore - oppScore IN
    IF scoreDiff < -14 THEN down_over_fourteen
    ELSE IF scoreDiff < -7 THEN down_over_seven
    ELSE IF scoreDiff < 0 THEN down_seven_less
    ELSE IF scoreDiff = 0 THEN even
    ELSE IF scoreDiff <= 7 THEN up_seven_less
    ELSE IF scoreDiff <= 14 THEN up_over_seven
    ELSE up_over_fourteen

\* SinglePlay::SinglePlay: the categories are derived here, the raw values dropped
SinglePlay(refId, playType, down, distanceNeeded, yardLine, minutes, ownScore, oppScore, distanceGained, turnedOver) ==
    [refId |-> refId, playType |-> playType, down |-> down,
     distanceNeeded |-> distanceToDistanceNeeded(distanceNeeded),
     fieldLocation |-> yardsToFieldLocation(yardLine),
     timeRemaining |-> minutesToTimeRemaining(minutes),
     scoreDifferential |-> scoreToScoreDifferential(ownScore, oppScore),
     distanceGained |-> distanceGained, turnedOver |-> turnedOver]

getValue(play, characteristic) ==
    CASE characteristic = down_number -> play.down
      [] characteristic = distance_needed -> play.distanceNeeded
      [] characteristic = field_location -> play.fieldLocation
      [] characteristic = time_remaining -> play.timeRemaining
      [] characteristic = score_differential -> play.scoreDifferential
      [] OTHER -> 0

(***************************************************************************)
(* Raw values the loader hands to insertPlay in this model.                *)
(***************************************************************************)
PlayTypesUsed == {run_left, punt}
IndexedPlayTypes == {run_left}
Downs == {1, 2}
DistancesNeeded == {1, 10}
YardLines == {50}
MinutesLeft == {10}
OwnScores == {0}
OppScores == {0}
DistancesGained == {3}
TurnedOvers == {FALSE}

(***************************************************************************)
(* Small helpers on sequences and sets                                     *)
(***************************************************************************)
NoError == ""

RECURSIVE SumSeq(_)
SumSeq(s) == IF s = <<>> THEN 0 ELSE Head(s) + SumSeq(Tail(s))

RECURSIVE FlattenSeq(_)
FlattenSeq(ss) == IF ss = <<>> THEN <<>> ELSE Head(ss) \o FlattenSeq(Tail(ss))

Range(s) == {s[i] : i \in DOMAIN s}

\* the positions of s, in order, whose element satisfies nothing but being
\* non-empty: used for "categories with plays"
NonEmptyPositions(ss) == {i \in DOMAIN ss : ss[i] # <<>>}

RECURSIVE SetToSortedSeq(_)
SetToSortedSeq(S) ==
    IF S = {} THEN <<>>
    ELSE LET m == CHOOSE x \in S : \A y \in S : x <= y
         IN <<m>> \o SetToSortedSeq(S \ {m})

(***************************************************************************)
(* playIndexSet.h / playIndexSet.cpp                                       *)
(* A PlayIndexSet is [indexes: the set _indexes, index: characteristic ->  *)
(* CategoryIndex]; index[c] stands for the member _downIndex, ...          *)
(***************************************************************************)
emptyCatIndex == <<>>

\* PlayIndexSet::PlayIndexSet()
EmptyPlayIndexSet ==
    [indexes |-> {}, index |-> [c \in PlayCharacteristics |-> emptyCatIndex]]

getIndex(ix, playCharacteristic) ==
    IF playCharacteristic \in PlayCharacteristics
    THEN ix.index[playCharacteristic] ELSE emptyCatIndex

getIndexesAvailable(ix) == ix.indexes

\* dropIndex without the test for the last index
dropIndexAlways(ix, playCharacteristic) ==
    [indexes |-> ix.indexes \ {playCharacteristic},
     index |-> [ix.index EXCEPT ![playCharacteristic] = emptyCatIndex]]

\* dropIndex that clears the index and leaves the characteristic in _indexes
dropIndexKeepTracked(ix, playCharacteristic) ==
    IF Cardinality(ix.indexes) = 1 THEN ix
    ELSE [ix EXCEPT !.index[playCharacteristic] = emptyCatIndex]

\* dropIndex whose switch clears the index of the next characteristic
dropIndexClearsNext(ix, playCharacteristic) ==
    IF Cardinality(ix.indexes) = 1 THEN ix
    ELSE [indexes |-> ix.indexes \ {playCharacteristic},
          index |-> [ix.index EXCEPT ![(playCharacteristic + 1) % 5] = emptyCatIndex]]

\* dropIndex that leaves the set as it is
dropIndexNever(ix, playCharacteristic) == ix

\* PlayIndexSet::dropIndex
dropIndex(ix, playCharacteristic) ==
    IF Cardinality(ix.indexes) = 1 THEN ix
    ELSE [indexes |-> ix.indexes \ {playCharacteristic},
          index |-> [ix.index EXCEPT ![playCharacteristic] = emptyCatIndex]]

\* PlayIndexSet::setIndexes
setIndexes(downIndex, distanceNeededIndex, fieldLocationIndex, timeRemainingIndex, scoreDifferentialIndex) ==
    IF \/ downIndex = <<>> \/ distanceNeededIndex = <<>>
       \/ fieldLocationIndex = <<>> \/ timeRemainingIndex = <<>>
       \/ scoreDifferentialIndex = <<>>
    THEN [err |-> "Index create failed, some data indexes empty after build",
          ix |-> EmptyPlayIndexSet]
    ELSE [err |-> NoError,
          ix |-> [indexes |-> PlayCharacteristics,
                  index |-> [c \in PlayCharacteristics |->
                      CASE c = down_number -> downIndex
                        [] c = distance_needed -> distanceNeededIndex
                        [] c = field_location -> fieldLocationIndex
                        [] c = time_remaining -> timeRemainingIndex
                        [] c = score_differential -> scoreDifferentialIndex]]]

\* splitIndexHelper that puts each play in front of its group
splitIndexHelperReversed(playCharacteristic, existIndex) ==
    [k \in 1 .. getCategoryCount(playCharacteristic) |->
        LET sel == SelectSeq(existIndex,
                     LAMBDA p : getValue(data[p], playCharacteristic) = k - 1)
        IN [i \in 1 .. Len(sel) |-> sel[Len(sel) + 1 - i]]]

\* splitIndexHelper whose loop starts at the second play
splitIndexHelperSkipFirst(playCharacteristic, existIndex) ==
    [k \in 1 .. getCategoryCount(playCharacteristic) |->
        SelectSeq(SubSeq(existIndex, 2, Len(existIndex)),
                  LAMBDA p : getValue(data[p], playCharacteristic) = k - 1)]

\* PlayIndexSet::splitIndexHelper: one PlayIndex cut into one PlayIndex per
\* category of the split characteristic, by reading each play's value
splitIndexHelper(playCharacteristic, existIndex) ==
    [k \in 1 .. getCategoryCount(playCharacteristic) |->
        SelectSeq(existIndex,
                  LAMBDA p : getValue(data[p], playCharacteristic) = k - 1)]

\* PlayIndexSet::splitIndex.  existIndex is the CategoryIndex of this set,
\* newIndexes the (still empty) CategoryIndexes of the result sets.  Returns
\* the new value of both.
splitIndex(playCharacteristic, existIndex, newIndexes) ==
    IF existIndex = <<>>
    THEN [err |-> NoError, existIndex |-> existIndex, newIndexes |-> newIndexes]
    ELSE
    LET results == [i \in 1 .. Len(existIndex) |->
                      splitIndexHelper(playCharacteristic, existIndex[i])]
        splitCounts == [k \in 1 .. getCategoryCount(playCharacteristic) |->
                      SumSeq([i \in 1 .. Len(existIndex) |-> Len(results[i][k])])]
        filled == SetToSortedSeq({k \in DOMAIN splitCounts : splitCounts[k] # 0})
    IN  IF filled = <<>>
        THEN [err |-> "Index split failed, generated pieces with no entries",
              existIndex |-> existIndex, newIndexes |-> newIndexes]
        ELSE IF Len(filled) - 1 > Len(newIndexes)
        THEN [err |-> "Index split failed, generated too many pieces",
              existIndex |-> existIndex, newIndexes |-> newIndexes]
        ELSE IF Len(filled) - 1 # Len(newIndexes)
        THEN [err |-> "Index split failed, generated too many pieces",
              existIndex |-> existIndex, newIndexes |-> newIndexes]
        ELSE [err |-> NoError,
              existIndex |-> [i \in 1 .. Len(existIndex) |-> results[i][filled[1]]],
              newIndexes |-> [j \in 1 .. Len(newIndexes) |->
                  newIndexes[j] \o
                  [i \in 1 .. Len(results) |-> results[i][filled[j + 1]]]]]

\* number of categories of the characteristic's index that hold plays
splitCountOf(ix, playCharacteristic) ==
    Cardinality(NonEmptyPositions(getIndex(ix, playCharacteristic)))

\* PlayIndexSet::splitIndexByCharacteristic.  Returns the new value of this
\* set (self) and the returned vector (result).
splitIndexByCharacteristic(ix, playCharacteristic) ==
    LET splitCount == splitCountOf(ix, playCharacteristic)
        dropped == dropIndex(ix, playCharacteristic)
    IN  IF splitCount <= 1
        THEN [err |-> NoError, self |-> dropped, result |-> <<>>]
        ELSE
        LET parts == [c \in PlayCharacteristics |->
                        splitIndex(playCharacteristic, dropped.index[c],
                                   [j \in 1 .. splitCount - 1 |-> emptyCatIndex])]
            failedAt == {c \in PlayCharacteristics : parts[c].err # NoError}
        IN  IF failedAt # {}
            THEN [err |-> parts[CHOOSE c \in failedAt :
                                 \A d \in failedAt : c <= d].err,
                  self |-> dropped, result |-> <<>>]
            ELSE [err |-> NoError,
                  self |-> [indexes |-> dropped.indexes,
                            index |-> [c \in PlayCharacteristics |->
                                         parts[c].existIndex]],
                  result |-> [j \in 1 .. splitCount - 1 |->
                      [indexes |-> dropped.indexes,
                       index |-> [c \in PlayCharacteristics |->
                                    parts[c].newIndexes[j]]]]]

(***************************************************************************)
(* C++ arithmetic                                                          *)
(***************************************************************************)
\* value kept by a 16 bit signed variable (short)
Short(x) == ((x + 32768) % 65536) - 32768

\* value kept by a 16 bit unsigned variable (unsigned short)
UShort(x) == x % 65536

\* integer division of C++: the quotient is truncated towards zero
CDiv(a, b) ==
    IF (a >= 0) = (b > 0) THEN a \div b
    ELSE IF b > 0 THEN -((-a) \div b) ELSE -(a \div (-b))

\* (short)sqrt(n) for an int n >= 0
RECURSIVE SqrtFrom(_, _)
SqrtFrom(n, r) == IF (r + 1) * (r + 1) > n THEN r ELSE SqrtFrom(n, r + 1)

\* std::sort on a vector of shorts
RECURSIVE sortDistances(_)
sortDistances(s) ==
    IF s = <<>> THEN <<>>
    ELSE LET m == CHOOSE i \in DOMAIN s : \A j \in DOMAIN s : s[i] <= s[j]
         IN <<s[m]>> \o sortDistances([i \in 1 .. Len(s) - 1 |->
                                    IF i < m THEN s[i] ELSE s[i + 1]])

(***************************************************************************)
(* playStats.h / playStats.cpp                                             *)
(***************************************************************************)
\* OverallPlaySummary::OverallPlaySummary
OverallPlaySummary(playDistances, turnoverCount) ==
    LET totalCount == Short(Len(playDistances)) IN
    IF totalCount > 0
    THEN LET totalDistance == Short(SumSeq(playDistances))
             averageDistance == Short(CDiv(totalDistance, totalCount))
             totalVariance ==
                 CDiv(SumSeq([i \in DOMAIN playDistances |->
                         (playDistances[i] - averageDistance) *
                         (playDistances[i] - averageDistance)]), totalCount)
         IN [averageDistance |-> averageDistance,
             distanceVariance |-> Short(SqrtFrom(totalVariance, 0)),
             turnoverPercentage |-> Short(CDiv(turnoverCount * 1000, totalCount)),
             totalCount |-> totalCount]
    ELSE [averageDistance |-> 0, distanceVariance |-> 0,
          turnoverPercentage |-> 0, totalCount |-> totalCount]

\* DetailedPlaySummary::DetailedPlaySummary
DetailedPlaySummary(playDistances, turnoverCount, conditionPlayCount, overallTypeStatistics) ==
    [playDistances |-> sortDistances(playDistances),
     turnoverCount |-> turnoverCount,
     groupStats |-> OverallPlaySummary(playDistances, turnoverCount),
     overallStats |-> overallTypeStatistics,
     percentOfConditionPlays |->
         Short(CDiv(Short(Len(playDistances)) * 1000, conditionPlayCount)),
     percentOfTypePlays |->
         Short(CDiv(Short(Len(playDistances)) * 1000,
                    overallTypeStatistics.totalCount))]

getPlayCount(summary) == Short(Len(summary.playDistances))

getPercentOfConditionPlays(summary) == summary.percentOfConditionPlays

\* DetailedPlaySummary::updateConditionStats
updateConditionStats(summary, totalMergedPlays) ==
    [summary EXCEPT !.percentOfConditionPlays =
        Short(CDiv(Short(Len(summary.playDistances)) * 1000, totalMergedPlays))]

\* merge that keeps its own count of turnovers
mergeOwnTurnovers(summary, other, totalMergedPlays) ==
    LET playDistances == sortDistances(summary.playDistances \o other.playDistances)
    IN updateConditionStats(
         [playDistances |-> playDistances,
          turnoverCount |-> summary.turnoverCount,
          groupStats |-> OverallPlaySummary(playDistances, summary.turnoverCount),
          overallStats |-> summary.overallStats,
          percentOfConditionPlays |-> summary.percentOfConditionPlays,
          percentOfTypePlays |->
              Short(CDiv(Short(Len(playDistances)) * 1000,
                         summary.overallStats.totalCount))],
         totalMergedPlays)

\* DetailedPlaySummary::merge
merge(summary, other, totalMergedPlays) ==
    LET playDistances == sortDistances(summary.playDistances \o other.playDistances)
        turnoverCount == Short(summary.turnoverCount + other.turnoverCount)
    IN updateConditionStats(
         [playDistances |-> playDistances,
          turnoverCount |-> turnoverCount,
          groupStats |-> OverallPlaySummary(playDistances, turnoverCount),
          overallStats |-> summary.overallStats,
          percentOfConditionPlays |-> summary.percentOfConditionPlays,
          percentOfTypePlays |->
              Short(CDiv(Short(Len(playDistances)) * 1000,
                         summary.overallStats.totalCount))],
         totalMergedPlays)

\* the plays an index set denotes, in the order of its first available
\* index (the iteration of PlaySummaryFactory::indexesToCounts and of
\* DecisionNode::indexesToPlayCounts)
indexedPlays(ix) ==
    IF getIndexesAvailable(ix) = {} THEN <<>>
    ELSE LET testIndex == CHOOSE c \in getIndexesAvailable(ix) :
                              \A d \in getIndexesAvailable(ix) : c <= d
         IN FlattenSeq(getIndex(ix, testIndex))

\* PlaySummaryFactory::indexesToCounts
indexesToCounts(ix) ==
    LET plays == indexedPlays(ix) IN
    [distances |-> [t \in PlayTypes |->
         LET sel == SelectSeq(plays, LAMBDA p : data[p].playType = t)
         IN [i \in 1 .. Len(sel) |-> data[sel[i]].distanceGained]],
     turnoverCounts |-> [t \in PlayTypes |->
         Len(SelectSeq(plays, LAMBDA p : data[p].playType = t /\ data[p].turnedOver))]]

\* PlaySummaryFactory::buildSummaryData: a vector indexed by play type
buildSummaryData(ix) ==
    LET counts == indexesToCounts(ix) IN
    [i \in 1 .. getPlayTypeCount |->
        OverallPlaySummary(counts.distances[i - 1], counts.turnoverCounts[i - 1])]

\* buildDetailedData with the plays of the whole store as condition total
buildDetailedDataOfStore(ix, overallData) ==
    LET counts == indexesToCounts(ix)
        totalPlayCount == Short(Len(data))
    IN [t \in {u \in PlayTypes : counts.distances[u] # <<>>} |->
          DetailedPlaySummary(counts.distances[t], counts.turnoverCounts[t],
                              totalPlayCount, overallData[t + 1])]

\* PlaySummaryFactory::buildDetailedData: a map play type -> DetailedPlaySummary
buildDetailedData(ix, overallData) ==
    LET counts == indexesToCounts(ix)
        totalPlayCount == Short(SumSeq([i \in 1 .. getPlayTypeCount |->
                                          Len(counts.distances[i - 1])]))
    IN [t \in {u \in PlayTypes : counts.distances[u] # <<>>} |->
          DetailedPlaySummary(counts.distances[t], counts.turnoverCounts[t],
                              totalPlayCount, overallData[t + 1])]

EmptyPlayData == [t \in {} |-> 0]

\* total of getPlayCount over a DetailedPlayData
mapPlayCount(playData) ==
    SumSeq([i \in 1 .. getPlayTypeCount |->
               IF (i - 1) \in DOMAIN playData THEN getPlayCount(playData[i - 1]) ELSE 0])

\* PlaySummaryFactory::mergeData, the loop over other.  resultPtr is the key
\* the iterator into result stands on, getPlayTypeCount when it is
\* result.end().  Entries of result the iterator never passes keep their
\* percentage of condition plays.
RECURSIVE mergeLoop(_, _, _, _, _)
mergeLoop(result, resultPtr, other, otherKeys, playCount) ==
    IF otherKeys = <<>> THEN result
    ELSE
    LET key == Head(otherKeys)
        passed == {r \in DOMAIN result : resultPtr <= r /\ r < key}
        advanced == [r \in DOMAIN result |->
                       IF r \in passed
                       THEN updateConditionStats(result[r], playCount)
                       ELSE result[r]]
        rest == {r \in DOMAIN result : resultPtr <= r /\ r >= key}
        ptr == IF rest = {} THEN getPlayTypeCount
               ELSE CHOOSE r \in rest : \A q \in rest : r <= q
    IN  IF ptr = key
        THEN mergeLoop([advanced EXCEPT ![key] = merge(@, other[key], playCount)],
                       key, other, Tail(otherKeys), playCount)
        ELSE \* insert (with or without a hint), the iterator moves to the new entry
             mergeLoop([r \in DOMAIN advanced \cup {key} |->
                          IF r = key
                          THEN updateConditionStats(other[key], playCount)
                          ELSE advanced[r]],
                       key, other, Tail(otherKeys), playCount)

\* mergeData that totals the plays of other only
mergeDataOtherTotal(result, other) ==
    LET playCount == Short(mapPlayCount(other))
        first == IF DOMAIN result = {} THEN getPlayTypeCount
                 ELSE CHOOSE r \in DOMAIN result : \A q \in DOMAIN result : r <= q
    IN mergeLoop(result, first, other, SetToSortedSeq(DOMAIN other), playCount)

\* PlaySummaryFactory::mergeData
mergeData(result, other) ==
    LET playCount == Short(mapPlayCount(result) + mapPlayCount(other))
        first == IF DOMAIN result = {} THEN getPlayTypeCount
                 ELSE CHOOSE r \in DOMAIN result : \A q \in DOMAIN result : r <= q
    IN mergeLoop(result, first, other, SetToSortedSeq(DOMAIN other), playCount)

(***************************************************************************)
(* dataStore.h / dataStore.cpp                                             *)
(***************************************************************************)
\* the CategoryIndex DataStore::buildIndexes builds for one characteristic
buildCategoryIndex(playCharacteristic) ==
    [k \in 1 .. getCategoryCount(playCharacteristic) |->
        SelectSeq([i \in 1 .. Len(data) |-> i],
                  LAMBDA p : getValue(data[p], playCharacteristic) = k - 1)]

(***************************************************************************)
(* decisionNode.h / decisionNode.cpp                                       *)
(* A DecisionNode is [childNodes, decisionValue, categoryChildMapping,     *)
(* playData]; childNodes holds the nodes themselves (each node owns its    *)
(* children).                                                              *)
(***************************************************************************)
\* log2 as the doubles of getInformation see it, in units of 1 / LogScale:
\* Log2Table[n] is log2(n) rounded to that unit
LogScale == 100000
Log2Table ==
    <<0, 100000, 158496, 200000, 232193, 258496, 280735, 300000, 316993, 332193,
      345943, 358496, 370044, 380735, 390689, 400000, 408746, 416993, 424793,
      432193, 439232, 445943, 452356, 458496, 464386, 470044, 475489, 480735,
      485798, 490689, 495420, 500000>>

\* DecisionNode::MinInformationGain, 0.02 as a fraction
MinInformationGain == [num |-> 2, den |-> 100]

\* DecisionNode::getInformation, times groupCount and LogScale:
\* -(playCount / groupCount) * log2(playCount / groupCount)
getInformation(playCount, groupCount) ==
    playCount * (Log2Table[groupCount] - Log2Table[playCount])

\* DecisionNode::getInfoGainRatio.  The quotient groupInformation /
\* intrinsicValue is kept as the fraction num / den (both times playTotal
\* and LogScale).
getInfoGainRatio(plays, playTotal, splitPlayCounts, splitPlayTotals) ==
    LET groupInformation ==
            SumSeq([i \in 1 .. getPlayTypeCount |->
                      IF (i - 1) \in DOMAIN plays
                      THEN getInformation(plays[i - 1], playTotal) ELSE 0])
        splitInformation(counter) ==
            SumSeq([i \in 1 .. getPlayTypeCount |->
                      IF splitPlayCounts[counter][i] # 0
                      THEN getInformation(splitPlayCounts[counter][i],
                                          splitPlayTotals[counter])
                      ELSE 0])
        subtracted ==
            SumSeq([counter \in 1 .. Len(splitPlayCounts) |->
                      splitInformation(counter)])
        intrinsicValue ==
            SumSeq([counter \in 1 .. Len(splitPlayTotals) |->
                      getInformation(splitPlayTotals[counter], playTotal)])
    IN [num |-> groupInformation - subtracted, den |-> intrinsicValue]

\* ratio < limit, for fractions with positive denominators
ratioLess(ratio, limit) == ratio.num * limit.den < limit.num * ratio.den

ZeroRatio == [num |-> 0, den |-> 1]

\* value of _decisionValue in a node that never assigned it (never read)
NoDecisionValue == -1

\* DecisionNode::indexesToPlayCounts: play type -> number of plays
indexesToPlayCounts(ix) ==
    LET plays == indexedPlays(ix)
        types == {data[plays[i]].playType : i \in DOMAIN plays}
    IN [t \in types |->
          Len(SelectSeq(plays, LAMBDA p : data[p].playType = t))]

\* the ratio without the test for all plays being in one category
infoRatioOfUnchecked(ix, playTypeCounts, testIndex) ==
    LET splitIndexCats == getIndex(ix, testIndex)
        filled == SetToSortedSeq(NonEmptyPositions(splitIndexCats))
        splitPlayCounts ==
            [k \in 1 .. Len(filled) |->
               [i \in 1 .. getPlayTypeCount |->
                  Len(SelectSeq(splitIndexCats[filled[k]],
                                LAMBDA p : data[p].playType = i - 1))]]
        splitPlayTotals == [k \in 1 .. Len(filled) |-> Len(splitIndexCats[filled[k]])]
        playTotals == Short(SumSeq(splitPlayTotals))
    IN getInfoGainRatio(playTypeCounts, playTotals, splitPlayCounts, splitPlayTotals)

\* information gain ratio of splitting the plays of ix by one characteristic
\* (decisionNode.cpp, body of the loop over testCharacteristics)
infoRatioOf(ix, playTypeCounts, testIndex) ==
    LET splitIndexCats == getIndex(ix, testIndex)
        filled == SetToSortedSeq(NonEmptyPositions(splitIndexCats))
        splitPlayCounts ==
            [k \in 1 .. Len(filled) |->
               [i \in 1 .. getPlayTypeCount |->
                  Len(SelectSeq(splitIndexCats[filled[k]],
                                LAMBDA p : data[p].playType = i - 1))]]
        splitPlayTotals == [k \in 1 .. Len(filled) |-> Len(splitIndexCats[filled[k]])]
        playTotals == Short(SumSeq(splitPlayTotals))
    IN IF Len(splitPlayTotals) <= 1 THEN ZeroRatio
       ELSE getInfoGainRatio(playTypeCounts, playTotals, splitPlayCounts,
                             splitPlayTotals)

\* ratio < other by at least 1/256, without products of two denominators
ratioClearlyLess(ratio, other) ==
    (ratio.num * 256) \div ratio.den < (other.num * 256) \div other.den

\* the loop keeping the characteristic of the largest ratio
RECURSIVE selectSplitBest(_, _, _)
selectSplitBest(st, playTypeCounts, testCharacteristics) ==
    IF testCharacteristics = <<>> THEN st
    ELSE
    LET testIndex == Head(testCharacteristics)
        infoRatio == infoRatioOf(st.indexes, playTypeCounts, testIndex)
    IN  IF ratioLess(infoRatio, MinInformationGain)
        THEN selectSplitBest([st EXCEPT !.indexes = dropIndex(st.indexes, testIndex)],
                             playTypeCounts, Tail(testCharacteristics))
        ELSE IF ratioClearlyLess(st.maxInfoRatio, infoRatio)
        THEN selectSplitBest([st EXCEPT !.decisionValue = testIndex,
                                        !.maxInfoRatio = infoRatio],
                             playTypeCounts, Tail(testCharacteristics))
        ELSE selectSplitBest(st, playTypeCounts, Tail(testCharacteristics))

\* the loop without the drop of the characteristics it rejects
RECURSIVE selectSplitKeepsAll(_, _, _)
selectSplitKeepsAll(st, playTypeCounts, testCharacteristics) ==
    IF testCharacteristics = <<>> THEN st
    ELSE
    LET testIndex == Head(testCharacteristics)
        infoRatio == infoRatioOf(st.indexes, playTypeCounts, testIndex)
    IN  IF ratioLess(infoRatio, MinInformationGain)
        THEN selectSplitKeepsAll(st, playTypeCounts, Tail(testCharacteristics))
        ELSE selectSplitKeepsAll([st EXCEPT !.decisionValue = testIndex,
                                            !.maxInfoRatio = infoRatio],
                                 playTypeCounts, Tail(testCharacteristics))

\* the loop over the snapshot testCharacteristics: st is [indexes,
\* decisionValue, maxInfoRatio]
RECURSIVE selectSplit(_, _, _)
selectSplit(st, playTypeCounts, testCharacteristics) ==
    IF testCharacteristics = <<>> THEN st
    ELSE
    LET testIndex == Head(testCharacteristics)
        infoRatio == infoRatioOf(st.indexes, playTypeCounts, testIndex)
    IN  IF ratioLess(infoRatio, MinInformationGain)
        THEN selectSplit([st EXCEPT !.indexes = dropIndex(st.indexes, testIndex)],
                         playTypeCounts, Tail(testCharacteristics))
        ELSE selectSplit([st EXCEPT !.decisionValue = testIndex,
                                    !.maxInfoRatio = infoRatio],
                         playTypeCounts, Tail(testCharacteristics))

\* the mapping with valueCount incremented before it is stored
categoryChildMappingShifted(splitIndexCats) ==
    [catIndex \in 1 .. Len(splitIndexCats) |->
        IF splitIndexCats[catIndex] # <<>>
        THEN Cardinality({c \in 1 .. catIndex : splitIndexCats[c] # <<>>})
        ELSE -1]

\* the mapping from categories to children the constructor builds
categoryChildMappingOf(splitIndexCats) ==
    [catIndex \in 1 .. Len(splitIndexCats) |->
        IF splitIndexCats[catIndex] # <<>>
        THEN Cardinality({c \in 1 .. catIndex - 1 : splitIndexCats[c] # <<>>})
        ELSE -1]

NoNode == [childNodes |-> <<>>, decisionValue |-> NoDecisionValue,
           categoryChildMapping |-> <<>>, playData |-> EmptyPlayData]

\* the constructor without the test for an empty play store
playStoreEmptyNever(playTypeCounts) == FALSE

\* playTypeCounts.empty(), the test the constructor starts with
playStoreEmpty(playTypeCounts) == DOMAIN playTypeCounts = {}

\* the search made whatever the number of play types
findSplitAlways(indexes, playTypeCounts) ==
    selectSplit([indexes |-> indexes, decisionValue |-> NoDecisionValue,
                 maxInfoRatio |-> ZeroRatio],
                playTypeCounts, SetToSortedSeq(getIndexesAvailable(indexes)))

\* the search of the constructor for the characteristic to split on, made
\* only when the plays are of more than one type
findSplit(indexes, playTypeCounts) ==
    LET start == [indexes |-> indexes, decisionValue |-> NoDecisionValue,
                  maxInfoRatio |-> ZeroRatio]
    IN  IF Cardinality(DOMAIN playTypeCounts) > 1
        THEN selectSplit(start, playTypeCounts,
                         SetToSortedSeq(getIndexesAvailable(indexes)))
        ELSE start

\* DecisionNode::DecisionNode.  Returns the node, the value the constructor
\* leaves in its argument indexes, and the exception it ended with.
RECURSIVE DecisionNode(_, _)
RECURSIVE buildChildren(_, _, _)

\* the try block: one child per index set, the first of them the mutated
\* argument of the parent
buildChildren(indexSets, summaryData, built) ==
    IF indexSets = <<>> THEN [err |-> NoError, childNodes |-> built.childNodes,
                              first |-> built.first]
    ELSE LET child == DecisionNode(Head(indexSets), summaryData) IN
         IF child.err # NoError
         THEN [err |-> child.err, childNodes |-> <<>>, first |-> built.first]
         ELSE buildChildren(Tail(indexSets), summaryData,
                 [childNodes |-> Append(built.childNodes, child.node),
                  first |-> IF built.childNodes = <<>> THEN child.indexes
                            ELSE built.first])

DecisionNode(indexes, summaryData) ==
    LET playTypeCounts == indexesToPlayCounts(indexes) IN
    IF playStoreEmpty(playTypeCounts)
    THEN [err |-> "DecisionNode create failed, passed play store empty",
          node |-> NoNode, indexes |-> indexes]
    ELSE
    LET chosen == findSplit(indexes, playTypeCounts)
    IN  IF ~ratioLess(chosen.maxInfoRatio, MinInformationGain)
        THEN
        LET mapping == categoryChildMappingOf(getIndex(chosen.indexes,
                                                       chosen.decisionValue))
            split == splitIndexByCharacteristic(chosen.indexes, chosen.decisionValue)
        IN  IF split.err # NoError
            THEN [err |-> split.err, node |-> NoNode, indexes |-> split.self]
            ELSE IF split.result = <<>>
            THEN [err |-> "DecisionNode create failed, split of play store data failed",
                  node |-> NoNode, indexes |-> split.self]
            ELSE
            LET kids == buildChildren(<<split.self>> \o split.result, summaryData,
                                      [childNodes |-> <<>>, first |-> split.self])
            IN  IF kids.err # NoError
                THEN [err |-> kids.err, node |-> NoNode, indexes |-> kids.first]
                ELSE [err |-> NoError,
                      node |-> [childNodes |-> kids.childNodes,
                                decisionValue |-> chosen.decisionValue,
                                categoryChildMapping |-> mapping,
                                playData |-> EmptyPlayData],
                      indexes |-> kids.first]
        ELSE [err |-> NoError,
              node |-> [childNodes |-> <<>>,
                        decisionValue |-> NoDecisionValue,
                        categoryChildMapping |-> <<>>,
                        playData |-> buildDetailedData(chosen.indexes, summaryData)],
              indexes |-> chosen.indexes]

isLeaf(node) == node.childNodes = <<>>

\* the nodes released when a child failed, with the destructor of the
\* failing node deleting its children after the catch block did
releasedByCatchAndDestructor(children) ==
    SetToSortedSeq(children) \o SetToSortedSeq(children)

\* the nodes the catch block of the constructor deletes: the children it
\* holds and, through their destructors, all nodes below them
releasedByCatch(children) == SetToSortedSeq(children)

\* DecisionNode::DecisionNode with its allocations.  The constructor calls
\* are numbered in the order they start; call number failAt throws (as new
\* or push_back may).  next is the number of the call after this one, live
\* the nodes allocated and not released when the call ends, freed the nodes
\* released, in order.  The storage of a node whose constructor throws is
\* released by the new expression (by unwinding for the root).
RECURSIVE construct(_, _, _, _)
RECURSIVE constructChildren(_, _, _, _, _)

\* the constructor call id ends with an exception: its storage is released
\* after the nodes in freed
thrown(err, ix, id, next, freed) ==
    [err |-> err, indexes |-> ix, next |-> next, live |-> {},
     freed |-> Append(freed, id)]

\* the try block after new DecisionNode(...) for one index set ended as child
childConstructed(child, rest, summaryData, failAt, built) ==
    IF child.err # NoError
    THEN [err |-> child.err, first |-> built.first, next |-> child.next,
          live |-> built.live, freed |-> child.freed, count |-> built.count]
    ELSE constructChildren(rest, summaryData, child.next, failAt,
            [first |-> IF built.count = 0 THEN child.indexes ELSE built.first,
             live |-> built.live \cup child.live,
             count |-> built.count + 1])

constructChildren(indexSets, summaryData, id, failAt, built) ==
    IF indexSets = <<>>
    THEN [err |-> NoError, first |-> built.first, next |-> id, live |-> built.live,
          freed |-> <<>>, count |-> built.count]
    ELSE childConstructed(construct(Head(indexSets), summaryData, id, failAt),
                          Tail(indexSets), summaryData, failAt, built)

\* the constructor after its try block ended as kids: the catch block
\* releases the children and the exception goes on
childrenConstructed(kids, id) ==
    IF kids.err # NoError
    THEN thrown(kids.err, kids.first, id, kids.next,
                kids.freed \o releasedByCatch(kids.live))
    ELSE [err |-> NoError, indexes |-> kids.first, next |-> kids.next,
          live |-> {id} \cup kids.live, freed |-> <<>>]

\* the constructor after splitIndexByCharacteristic returned split
splitMade(split, summaryData, id, failAt) ==
    IF split.err # NoError
    THEN thrown(split.err, split.self, id, id + 1, <<>>)
    ELSE IF split.result = <<>>
    THEN thrown("DecisionNode create failed, split of play store data failed",
                split.self, id, id + 1, <<>>)
    ELSE childrenConstructed(
             constructChildren(<<split.self>> \o split.result, summaryData,
                               id + 1, failAt,
                               [first |-> split.self, live |-> {}, count |-> 0]),
             id)

\* the constructor after its search for a split ended as chosen
splitSearched(chosen, summaryData, id, failAt) ==
    IF ~ratioLess(chosen.maxInfoRatio, MinInformationGain)
    THEN splitMade(splitIndexByCharacteristic(chosen.indexes, chosen.decisionValue),
                   summaryData, id, failAt)
    ELSE [err |-> NoError, indexes |-> chosen.indexes, next |-> id + 1,
          live |-> {id}, freed |-> <<>>]

construct(indexes, summaryData, id, failAt) ==
    IF id = failAt THEN thrown("std::bad_alloc", indexes, id, id + 1, <<>>)
    ELSE IF playStoreEmpty(indexesToPlayCounts(indexes))
    THEN thrown("DecisionNode create failed, passed play store empty", indexes,
                id, id + 1, <<>>)
    ELSE splitSearched(findSplit(indexes, indexesToPlayCounts(indexes)),
                       summaryData, id, failAt)

\* size of PlayTypeBitSet; bitset::size() is the number of bits it holds
PlayTypeBitSetSize == 11

\* values the never initialised local totalPlayCount of pruneTree may start with
IndeterminateTotals == {0, 22, 65535}

\* children whose summary holds one play type, with one play
singlePlayLeafCount(childNodes) ==
    Cardinality({i \in DOMAIN childNodes :
        /\ Cardinality(DOMAIN childNodes[i].playData) = 1
        /\ \A t \in DOMAIN childNodes[i].playData :
               getPlayCount(childNodes[i].playData[t]) = 1})

\* the significant play types without the rule for rare plays
significantPlaysByShare(node) ==
    LET percents == {getPercentOfConditionPlays(node.playData[t]) :
                       t \in DOMAIN node.playData}
        highest == IF \E c \in percents : c > 0
                   THEN CHOOSE c \in percents : \A d \in percents : d <= c ELSE 0
        maxPercentage == CDiv(UShort(highest * 3), 4)
    IN {t \in DOMAIN node.playData :
          getPercentOfConditionPlays(node.playData[t]) >= maxPercentage}

\* the play types pruneTree calls significant for one child
significantPlays(node) ==
    LET counts == {getPlayCount(node.playData[t]) : t \in DOMAIN node.playData}
        mostFrequentPlay ==
            IF \E c \in counts : c > 0
            THEN CHOOSE c \in counts : \A d \in counts : d <= c ELSE 0
        percents == {getPercentOfConditionPlays(node.playData[t]) :
                       t \in DOMAIN node.playData}
        highest == IF \E c \in percents : c > 0
                   THEN CHOOSE c \in percents : \A d \in percents : d <= c ELSE 0
        maxPercentage == CDiv(UShort(highest * 3), 4)
    IN {t \in DOMAIN node.playData :
          \/ getPercentOfConditionPlays(node.playData[t]) >= maxPercentage
          \/ mostFrequentPlay <= 5}

\* the decision of pruneTree with the first test asking for single plays in
\* every child
shouldPruneAllSingle(childNodes, garbage) ==
    IF singlePlayLeafCount(childNodes) >= Len(childNodes) THEN TRUE
    ELSE
    LET totalPlayCount ==
            UShort(garbage + SumSeq([i \in DOMAIN childNodes |->
                                       mapPlayCount(childNodes[i].playData)]))
        singlePlays == {t \in PlayTypes : \E i \in DOMAIN childNodes :
                          /\ t \in DOMAIN childNodes[i].playData
                          /\ ~(getPlayCount(childNodes[i].playData[t]) > 1)}
        multiPlays == {t \in PlayTypes : \E i \in DOMAIN childNodes :
                          /\ t \in DOMAIN childNodes[i].playData
                          /\ getPlayCount(childNodes[i].playData[t]) > 1}
        anySignificant == UNION {significantPlays(childNodes[i]) :
                                   i \in DOMAIN childNodes}
        allSignificant == {t \in PlayTypes : \A i \in DOMAIN childNodes :
                             t \in significantPlays(childNodes[i])}
    IN  IF anySignificant = allSignificant THEN TRUE
        ELSE LET onlySingle == singlePlays \ multiPlays
                 inSome == anySignificant \ allSignificant
             IN /\ (onlySingle \cap inSome) = inSome
                /\ PlayTypeBitSetSize <= CDiv(totalPlayCount, 2)

\* the decision of pruneTree with the third test on totalPlayCount alone
shouldPruneAnySets(childNodes, garbage) ==
    IF singlePlayLeafCount(childNodes) >= Len(childNodes) - 1 THEN TRUE
    ELSE
    LET totalPlayCount ==
            UShort(garbage + SumSeq([i \in DOMAIN childNodes |->
                                       mapPlayCount(childNodes[i].playData)]))
        anySignificant == UNION {significantPlays(childNodes[i]) :
                                   i \in DOMAIN childNodes}
        allSignificant == {t \in PlayTypes : \A i \in DOMAIN childNodes :
                             t \in significantPlays(childNodes[i])}
    IN  IF anySignificant = allSignificant THEN TRUE
        ELSE PlayTypeBitSetSize <= CDiv(totalPlayCount, 2)

\* the decision of pruneTree for a node whose children are all leaves;
\* totalPlayCount starts from the value garbage
shouldPrune(childNodes, garbage) ==
    IF singlePlayLeafCount(childNodes) >= Len(childNodes) - 1 THEN TRUE
    ELSE
    LET totalPlayCount ==
            UShort(garbage + SumSeq([i \in DOMAIN childNodes |->
                                       mapPlayCount(childNodes[i].playData)]))
        singlePlays == {t \in PlayTypes : \E i \in DOMAIN childNodes :
                          /\ t \in DOMAIN childNodes[i].playData
                          /\ ~(getPlayCount(childNodes[i].playData[t]) > 1)}
        multiPlays == {t \in PlayTypes : \E i \in DOMAIN childNodes :
                          /\ t \in DOMAIN childNodes[i].playData
                          /\ getPlayCount(childNodes[i].playData[t]) > 1}
        anySignificant == UNION {significantPlays(childNodes[i]) :
                                   i \in DOMAIN childNodes}
        allSignificant == {t \in PlayTypes : \A i \in DOMAIN childNodes :
                             t \in significantPlays(childNodes[i])}
    IN  IF anySignificant = allSignificant THEN TRUE
        ELSE LET onlySingle == singlePlays \ multiPlays
                 inSome == anySignificant \ allSignificant
             IN /\ (onlySingle \cap inSome) = inSome
                /\ PlayTypeBitSetSize <= CDiv(totalPlayCount, 2)

\* the statistics of all children combined, first child first
\* the merge loop of pruneTree that stops after the swap with the first child
mergeChildrenFirstOnly(playData, childNodes) == playData

RECURSIVE mergeChildren(_, _)
mergeChildren(playData, childNodes) ==
    IF childNodes = <<>> THEN playData
    ELSE mergeChildren(mergeData(playData, Head(childNodes).playData),
                       Tail(childNodes))

\* all sequences that take their i-th element from the i-th set
RECURSIVE SeqsOver(_)
SeqsOver(sets) ==
    IF sets = <<>> THEN {<<>>}
    ELSE {<<h>> \o t : h \in Head(sets), t \in SeqsOver(Tail(sets))}

\* pruneTree removing the children without combining their statistics
pruneNodeNoMerge(node, childNodes, garbage) ==
    IF \E i \in DOMAIN childNodes : ~isLeaf(childNodes[i])
    THEN [node EXCEPT !.childNodes = childNodes]
    ELSE IF shouldPrune(childNodes, garbage)
    THEN [node EXCEPT !.childNodes = <<>>]
    ELSE [node EXCEPT !.childNodes = childNodes]

\* pruneTree without the return on haveLeaves being false
pruneNodeEager(node, childNodes, garbage) ==
    IF shouldPrune(childNodes, garbage)
    THEN [node EXCEPT !.childNodes = <<>>,
                      !.playData = mergeChildren(Head(childNodes).playData,
                                                 Tail(childNodes))]
    ELSE [node EXCEPT !.childNodes = childNodes]

\* what pruneTree does to a node once its non-leaf children were pruned
pruneNode(node, childNodes, garbage) ==
    IF \E i \in DOMAIN childNodes : ~isLeaf(childNodes[i])
    THEN [node EXCEPT !.childNodes = childNodes]
    ELSE IF shouldPrune(childNodes, garbage)
    THEN [node EXCEPT !.childNodes = <<>>,
                      !.playData = mergeChildren(Head(childNodes).playData,
                                                 Tail(childNodes))]
    ELSE [node EXCEPT !.childNodes = childNodes]

\* DecisionNode::pruneTree: the nodes a call can leave behind, one for
\* each choice of the indeterminate start values
RECURSIVE pruneTree(_)
pruneTree(node) ==
    IF isLeaf(node) THEN {node}
    ELSE {pruneNode(node, childNodes, garbage) :
            childNodes \in SeqsOver([i \in DOMAIN node.childNodes |->
                                  IF isLeaf(node.childNodes[i])
                                  THEN {node.childNodes[i]}
                                  ELSE pruneTree(node.childNodes[i])]),
            garbage \in IndeterminateTotals}

\* findPlays without the test childIndex >= 0
RECURSIVE findPlaysUnchecked(_, _)
findPlaysUnchecked(node, situation) ==
    IF isLeaf(node) THEN [err |-> NoError, playData |-> node.playData]
    ELSE
    LET testValue == IF node.decisionValue \in PlayCharacteristics
                     THEN situation[node.decisionValue] ELSE 0
    IN  IF ~(testValue + 1 \in DOMAIN node.categoryChildMapping)
        THEN [err |-> "out_of_range", playData |-> EmptyPlayData]
        ELSE LET childIndex == node.categoryChildMapping[testValue + 1] IN
             IF childIndex + 1 \in DOMAIN node.childNodes
             THEN findPlaysUnchecked(node.childNodes[childIndex + 1], situation)
             ELSE [err |-> "out_of_range", playData |-> EmptyPlayData]

\* DecisionNode::findPlays, the version that takes category values;
\* situation is a function characteristic -> category value
RECURSIVE findPlays(_, _)
findPlays(node, situation) ==
    IF isLeaf(node) THEN [err |-> NoError, playData |-> node.playData]
    ELSE
    LET testValue == IF node.decisionValue \in PlayCharacteristics
                     THEN situation[node.decisionValue] ELSE 0
    IN  IF ~(testValue + 1 \in DOMAIN node.categoryChildMapping)
        THEN [err |-> "out_of_range", playData |-> EmptyPlayData]
        ELSE LET childIndex == node.categoryChildMapping[testValue + 1] IN
             IF childIndex >= 0
             THEN IF childIndex + 1 \in DOMAIN node.childNodes
                  THEN findPlays(node.childNodes[childIndex + 1], situation)
                  ELSE [err |-> "out_of_range", playData |-> EmptyPlayData]
             ELSE [err |-> NoError, playData |-> node.playData]

\* the category values of a play, as findPlays takes them
situationOf(play) == [c \in PlayCharacteristics |-> getValue(play, c)]

\* buildIndexes without the test for an empty store
buildIndexesUnchecked ==
    LET set == setIndexes(buildCategoryIndex(down_number),
                          buildCategoryIndex(distance_needed),
                          buildCategoryIndex(field_location),
                          buildCategoryIndex(time_remaining),
                          buildCategoryIndex(score_differential))
    IN IF set.err # NoError
       THEN [err |-> set.err, indexes |-> storeIndexes, stats |-> playSummaryStats]
       ELSE [err |-> NoError, indexes |-> set.ix, stats |-> buildSummaryData(set.ix)]

\* DataStore::buildIndexes: the new values of _indexes and _playSummaryStats
buildIndexes ==
    IF data = <<>>
    THEN [err |-> NoError, indexes |-> storeIndexes, stats |-> playSummaryStats]
    ELSE LET set == setIndexes(buildCategoryIndex(down_number),
                               buildCategoryIndex(distance_needed),
                               buildCategoryIndex(field_location),
                               buildCategoryIndex(time_remaining),
                               buildCategoryIndex(score_differential))
         IN IF set.err # NoError
            THEN [err |-> set.err, indexes |-> storeIndexes,
                  stats |-> playSummaryStats]
            ELSE [err |-> NoError, indexes |-> set.ix,
                  stats |-> buildSummaryData(set.ix)]

(***************************************************************************)
(* The state machine                                                       *)
(***************************************************************************)
\* lastOp: the operation and its argument (a characteristic, the number of a
\* sibling or of a pruneTree call)
NoOp == [op |-> "none", arg |-> -1]

Init ==
    /\ data = <<>>
    /\ storeIndexes = EmptyPlayIndexSet
    /\ playSummaryStats = <<>>
    /\ dataView = EmptyPlayIndexSet
    /\ siblings = <<>>
    /\ tree = NoNode
    /\ pc = "load"
    /\ error = NoError
    /\ lastOp = NoOp
    /\ before = EmptyPlayIndexSet

\* DataStore::insertPlay, called by the loader
InsertPlay(playTypes, maxPlays) ==
    /\ pc = "load"
    /\ Len(data) < maxPlays
    /\ \E playType \in playTypes, down \in Downs,
          distanceNeeded \in DistancesNeeded, yardLine \in YardLines,
          minutes \in MinutesLeft, ownScore \in OwnScores, oppScore \in OppScores,
          distanceGained \in DistancesGained, turnedOver \in TurnedOvers :
          data' = Append(data, SinglePlay(Len(data), playType, down, distanceNeeded,
                                          yardLine, minutes, ownScore, oppScore,
                                          distanceGained, turnedOver))
    /\ UNCHANGED <<storeIndexes, playSummaryStats, dataView, siblings, tree, pc,
                   error, lastOp, before>>

\* the plays of a file the loader reads in order; each may occur any number
\* of times
LoadedPlays ==
    << [playType |-> run_left, down |-> 1, distanceNeeded |-> 10,
        distanceGained |-> 7, turnedOver |-> FALSE],
       [playType |-> run_left, down |-> 2, distanceNeeded |-> 10,
        distanceGained |-> 3, turnedOver |-> TRUE],
       [playType |-> punt, down |-> 2, distanceNeeded |-> 10,
        distanceGained |-> 40, turnedOver |-> FALSE],
       [playType |-> run_left, down |-> 1, distanceNeeded |-> 1,
        distanceGained |-> 2, turnedOver |-> FALSE],
       [playType |-> punt, down |-> 2, distanceNeeded |-> 1,
        distanceGained |-> 35, turnedOver |-> TRUE],
       [playType |-> punt, down |-> 1, distanceNeeded |-> 10,
        distanceGained |-> 45, turnedOver |-> FALSE],
       [playType |-> pass_short_right, down |-> 2, distanceNeeded |-> 10,
        distanceGained |-> 12, turnedOver |-> FALSE],
       [playType |-> field_goal, down |-> 2, distanceNeeded |-> 10,
        distanceGained |-> 0, turnedOver |-> FALSE] >>

\* DataStore::insertPlay, called by a loader that reads LoadedPlays; lastOp
\* holds the place in the list the loader has reached
InsertLoadedPlay ==
    /\ pc = "load"
    /\ Len(data) < MaxLoadedPlays
    /\ \E k \in DOMAIN LoadedPlays :
          /\ lastOp.arg <= k
          /\ lastOp' = [op |-> "insert", arg |-> k]
          /\ \E yardLine \in YardLines, minutes \in MinutesLeft,
                ownScore \in OwnScores, oppScore \in OppScores :
                data' = Append(data,
                          SinglePlay(Len(data), LoadedPlays[k].playType,
                                     LoadedPlays[k].down, LoadedPlays[k].distanceNeeded,
                                     yardLine, minutes, ownScore, oppScore,
                                     LoadedPlays[k].distanceGained,
                                     LoadedPlays[k].turnedOver))
    /\ UNCHANGED <<storeIndexes, playSummaryStats, dataView, siblings, tree, pc,
                   error, before>>

\* the plays of a file with many plays of few kinds, read in order; each
\* may occur any number of times
BulkPlays ==
    << [playType |-> run_left, down |-> 1, distanceGained |-> 4, turnedOver |-> FALSE],
       [playType |-> punt, down |-> 1, distanceGained |-> 40, turnedOver |-> FALSE],
       [playType |-> run_left, down |-> 2, distanceGained |-> 2, turnedOver |-> TRUE],
       [playType |-> punt, down |-> 2, distanceGained |-> 38, turnedOver |-> FALSE] >>

\* DataStore::insertPlay, called by a loader that reads BulkPlays; lastOp
\* holds the place in the list the loader has reached
InsertBulkPlay ==
    /\ pc = "load"
    /\ Len(data) < MaxBulkPlays
    /\ \E k \in DOMAIN BulkPlays :
          /\ lastOp.arg <= k
          /\ lastOp' = [op |-> "insert", arg |-> k]
          /\ \E distanceNeeded \in {10}, yardLine \in YardLines,
                minutes \in MinutesLeft, ownScore \in OwnScores,
                oppScore \in OppScores :
                data' = Append(data,
                          SinglePlay(Len(data), BulkPlays[k].playType,
                                     BulkPlays[k].down, distanceNeeded,
                                     yardLine, minutes, ownScore, oppScore,
                                     BulkPlays[k].distanceGained,
                                     BulkPlays[k].turnedOver))
    /\ UNCHANGED <<storeIndexes, playSummaryStats, dataView, siblings, tree, pc,
                   error, before>>

\* DataStore::buildIndexes, called once the loader is done
BuildIndexes ==
    /\ pc = "load"
    /\ LET built == buildIndexes IN
         /\ storeIndexes' = built.indexes
         /\ playSummaryStats' = built.stats
         /\ error' = built.err
         /\ pc' = IF built.err = NoError THEN "indexed" ELSE "failed"
    /\ UNCHANGED <<data, dataView, siblings, tree, lastOp, before>>

\* plays a dangling iterator may find where its play was; the play types
\* are kept to those buildIndexes counted, for which the statistics of a
\* leaf are defined
StalePlays(playTypes) ==
    {SinglePlay(0, playType, 1, 1, 50, 10, 0, 0, 0, FALSE) : playType \in playTypes}

\* what the iterators of the indexes may read after push_back moved _data:
\* each finds its play as it was or a play of StalePlays
staleReads(plays) ==
    LET stalePlays == StalePlays({plays[i].playType : i \in DOMAIN plays})
    IN  {s \in [DOMAIN plays -> Range(plays) \cup stalePlays] :
            \A i \in DOMAIN plays : s[i] = plays[i] \/ s[i] \in stalePlays}

\* DataStore::insertPlay called after buildIndexes.  The indexes hold
\* iterators into _data, which push_back invalidates when it reallocates;
\* data keeps, for the plays the indexes refer to, what these iterators read.
LateInsertPlay ==
    /\ pc = "indexed"
    /\ Len(data) < MaxLatePlays
    /\ lastOp' = [op |-> "late", arg |-> Len(data)]
    /\ LET indexed == Len(indexedPlays(storeIndexes)) IN
       \E playType \in PlayTypesUsed, down \in Downs,
          distanceNeeded \in DistancesNeeded, yardLine \in YardLines,
          minutes \in MinutesLeft, ownScore \in OwnScores, oppScore \in OppScores,
          distanceGained \in DistancesGained, turnedOver \in TurnedOvers,
          stale \in staleReads(SubSeq(data, 1, indexed)) :
          data' = Append([i \in 1 .. Len(data) |->
                             IF i <= indexed THEN stale[i] ELSE data[i]],
                         SinglePlay(Len(data), playType, down, distanceNeeded,
                                    yardLine, minutes, ownScore, oppScore,
                                    distanceGained, turnedOver))
    /\ UNCHANGED <<storeIndexes, playSummaryStats, dataView, siblings, tree, pc,
                   error, before>>

\* DataStore::getIndexes: the client gets a copy (main: dataView)
GetIndexes ==
    /\ pc = "indexed"
    /\ dataView' = storeIndexes
    /\ pc' = "view"
    /\ UNCHANGED <<data, storeIndexes, playSummaryStats, siblings, tree, error,
                   lastOp, before>>

\* PlayIndexSet::dropIndex on the client's index set.  The client names a
\* characteristic it got from getIndexesAvailable, as the constructor of
\* DecisionNode does.
DropIndex(playCharacteristic) ==
    /\ pc = "view"
    /\ playCharacteristic \in getIndexesAvailable(dataView)
    /\ dataView' = dropIndex(dataView, playCharacteristic)
    /\ siblings' = <<>>
    /\ lastOp' = [op |-> "drop", arg |-> playCharacteristic]
    /\ UNCHANGED <<data, storeIndexes, playSummaryStats, tree, pc, error, before>>

\* PlayIndexSet::splitIndexByCharacteristic on the client's index set, for
\* a characteristic the set has available
SplitIndexByCharacteristic(playCharacteristic) ==
    /\ pc = "view"
    /\ playCharacteristic \in getIndexesAvailable(dataView)
    /\ lastOp' = [op |-> "split", arg |-> playCharacteristic]
    /\ LET split == splitIndexByCharacteristic(dataView, playCharacteristic) IN
         /\ dataView' = split.self
         /\ siblings' = split.result
         /\ error' = split.err
         /\ pc' = IF split.err = NoError THEN "view" ELSE "failed"
    /\ UNCHANGED <<data, storeIndexes, playSummaryStats, tree, before>>

\* the client goes on with one of the index sets the split returned, as the
\* constructor of DecisionNode does for each of them
UseSibling ==
    /\ pc = "view"
    /\ \E i \in DOMAIN siblings :
         /\ dataView' = siblings[i]
         /\ lastOp' = [op |-> "sibling", arg |-> i]
    /\ siblings' = <<>>
    /\ UNCHANGED <<data, storeIndexes, playSummaryStats, tree, pc, error, before>>

\* _indexes when getIndexes handed out a reference to it
indexesOfStoreShared(clientIndexes) == clientIndexes

\* _indexes once the client changed the index set it got from getIndexes:
\* getIndexes returned a copy, so _indexes is as it was
indexesOfStore(clientIndexes) == storeIndexes

\* DecisionNode tree(dataView, data.getPlaySummaryStats())
BuildTree ==
    /\ pc = "view"
    /\ LET built == DecisionNode(dataView, playSummaryStats) IN
         /\ tree' = built.node
         /\ dataView' = built.indexes
         /\ error' = built.err
         /\ pc' = IF built.err = NoError THEN "built" ELSE "failed"
    /\ storeIndexes' = indexesOfStore(dataView')
    /\ lastOp' = [op |-> "build", arg |-> 0]
    /\ before' = dataView
    /\ UNCHANGED <<data, playSummaryStats, siblings>>

\* DecisionNode tree(dataView, ...) when the constructor call number failAt
\* throws; before keeps the allocations of the build
BuildTreeFailing(failAt) ==
    /\ pc = "view"
    /\ lastOp' = [op |-> "fail", arg |-> failAt]
    /\ failAt <= 2 * Len(data)
    /\ \E built \in {construct(dataView, playSummaryStats, 0, failAt)} :
         /\ failAt < built.next
         /\ dataView' = built.indexes
         /\ error' = built.err
         /\ before' = [next |-> built.next, live |-> built.live,
                       freed |-> built.freed]
    /\ tree' = NoNode
    /\ pc' = "failed"
    /\ UNCHANGED <<data, storeIndexes, playSummaryStats, siblings>>

\* tree.pruneTree()
PruneTree ==
    /\ pc = "built"
    /\ lastOp.arg < MaxPrunes
    /\ \E pruned \in pruneTree(tree) : tree' = pruned
    /\ lastOp' = [op |-> "prune", arg |-> lastOp.arg + 1]
    /\ before' = tree
    /\ UNCHANGED <<data, storeIndexes, playSummaryStats, dataView, siblings, pc,
                   error>>

\* a client that builds and prunes the tree, as main does
Next ==
    \/ InsertPlay(PlayTypesUsed, MaxPlays)
    \/ BuildIndexes
    \/ GetIndexes
    \/ BuildTree
    \/ PruneTree

Spec == Init /\ [][Next]_vars

\* the same client on the plays of the list LoadedPlays
NextLoaded ==
    \/ InsertLoadedPlay
    \/ BuildIndexes
    \/ GetIndexes
    \/ BuildTree
    \/ PruneTree

SpecLoaded == Init /\ [][NextLoaded]_vars

\* the same client on the plays of the list BulkPlays
NextBulk ==
    \/ InsertBulkPlay
    \/ BuildIndexes
    \/ GetIndexes
    \/ BuildTree
    \/ PruneTree

SpecBulk == Init /\ [][NextBulk]_vars

\* a client whose build of the tree may run out of memory
NextFail ==
    \/ InsertLoadedPlay
    \/ BuildIndexes
    \/ GetIndexes
    \/ BuildTree
    \/ \E failAt \in 0 .. 2 * MaxLoadedPlays : BuildTreeFailing(failAt)

SpecFail == Init /\ [][NextFail]_vars

\* a client that goes on inserting after buildIndexes
NextLate ==
    \/ InsertPlay(PlayTypesUsed, MaxLatePlays)
    \/ BuildIndexes
    \/ LateInsertPlay
    \/ GetIndexes
    \/ BuildTree

SpecLate == Init /\ [][NextLate]_vars

\* a client that works on the index set itself
NextIdx ==
    \/ InsertPlay(IndexedPlayTypes, MaxIndexedPlays)
    \/ BuildIndexes
    \/ GetIndexes
    \/ \E playCharacteristic \in PlayCharacteristics :
           DropIndex(playCharacteristic)
    \/ \E playCharacteristic \in PlayCharacteristics :
           SplitIndexByCharacteristic(playCharacteristic)
    \/ UseSibling

SpecIdx == Init /\ [][NextIdx]_vars

(***************************************************************************)
(* Properties of the index set (checked under SpecIdx)                     *)
(***************************************************************************)
\* the plays a characteristic's partition holds, category by category
partitionPlays(ix, playCharacteristic) ==
    FlattenSeq(getIndex(ix, playCharacteristic))

\* this set and the returned ones, in category order
splitParts == <<dataView>> \o siblings

\* categories of a characteristic that hold plays, ascending (as positions)
filledCategories(ix, playCharacteristic) ==
    SetToSortedSeq(NonEmptyPositions(getIndex(ix, playCharacteristic)))

Conserved(old, parts) ==
    /\ Len(indexedPlays(old)) =
           SumSeq([i \in DOMAIN parts |-> Len(indexedPlays(parts[i]))])
    /\ \A p \in Range(indexedPlays(old)) :
           Cardinality({i \in DOMAIN parts : p \in Range(indexedPlays(parts[i]))}) = 1
    /\ \A i \in DOMAIN parts :
           Range(indexedPlays(parts[i])) \subseteq Range(indexedPlays(old))

\* C1: a split conserves the plays: the set held as many plays before the
\* call as the set and all returned siblings hold after it, and every play
\* of the set is afterwards in exactly one of them.
C1_SplitConservesPlays ==
    [][\A c \in PlayCharacteristics :
         SplitIndexByCharacteristic(c) =>
             Conserved(dataView, <<dataView'>> \o siblings')]_vars

C1_Witness ==
    /\ pc = "view"
    /\ lastOp.op = "split"
    /\ Len(siblings) >= 1
    /\ Len(indexedPlays(dataView)) >= 2
    /\ \A i \in DOMAIN siblings : Len(indexedPlays(siblings[i])) >= 1

\* what C2 says of a split on a characteristic with at most one category
\* holding plays: nothing returned, every other characteristic untouched
NoSplitFrame(c) ==
    /\ siblings' = <<>>
    /\ \A d \in PlayCharacteristics \ {c} :
          /\ dataView'.index[d] = dataView.index[d]
          /\ (d \in dataView'.indexes) = (d \in dataView.indexes)

\* C2 as stated: splitting on a characteristic with at most one populated
\* category returns nothing, removes the characteristic from the tracked set
\* and leaves all others as they were, whatever the tracked set is.
C2_Original ==
    [][\A c \in PlayCharacteristics :
         (SplitIndexByCharacteristic(c) /\ splitCountOf(dataView, c) <= 1) =>
             (NoSplitFrame(c) /\ c \notin dataView'.indexes)]_vars

\* C2 amended: the same, except that a characteristic that is the only
\* tracked one stays tracked: then the index set is left as it was.
C2_NoSplitDropsUnlessLast ==
    [][/\ \A c \in PlayCharacteristics :
         (SplitIndexByCharacteristic(c) /\ splitCountOf(dataView, c) <= 1) =>
             /\ NoSplitFrame(c)
             /\ pc' = "view"
             /\ (dataView.indexes # {c}) => (c \notin dataView'.indexes
                                             /\ dataView'.index[c] = <<>>)
             /\ (dataView.indexes = {c}) => (dataView' = dataView)
       /\ pc = "view" =>
             \A c \in PlayCharacteristics \ dataView.indexes :
                 splitIndexByCharacteristic(dataView, c) =
                     [err |-> NoError, self |-> dataView, result |-> <<>>]]_vars

C2_Witness ==
    /\ pc = "view"
    /\ lastOp.op = "split"
    /\ siblings = <<>>
    /\ lastOp.arg \notin dataView.indexes
    /\ Cardinality(dataView.indexes) >= 2
    /\ Len(indexedPlays(dataView)) >= 2

\* C3 as stated: after a split on a characteristic with two or more
\* populated categories the characteristic is tracked in none of the sets
\* and its partition is empty in all of them, also when it was the only
\* tracked characteristic.
C3_Original ==
    [][\A c \in PlayCharacteristics :
         (SplitIndexByCharacteristic(c) /\ splitCountOf(dataView, c) >= 2) =>
             \A i \in 1 .. Len(siblings') + 1 :
                 LET part == (<<dataView'>> \o siblings')[i] IN
                 c \notin part.indexes /\ getIndex(part, c) = <<>>]_vars

\* C3 amended: that holds when some other characteristic was tracked too;
\* a characteristic that was the only tracked one stays tracked in the set
\* and in every sibling, its partition holding the plays of that part.
C3_SplitDropsUnlessLast ==
    [][\A c \in PlayCharacteristics :
         (SplitIndexByCharacteristic(c) /\ splitCountOf(dataView, c) >= 2) =>
             \A i \in 1 .. Len(siblings') + 1 :
                 LET part == (<<dataView'>> \o siblings')[i] IN
                 IF dataView.indexes # {c}
                 THEN c \notin part.indexes /\ getIndex(part, c) = <<>>
                 ELSE part.indexes = {c} /\ partitionPlays(part, c) # <<>>]_vars

C3_Witness ==
    /\ pc = "view"
    /\ lastOp.op = "split"
    /\ siblings # <<>>
    /\ \A i \in DOMAIN splitParts :
          /\ lastOp.arg \notin splitParts[i].indexes
          /\ splitParts[i].indexes # {}

SamePlaysInAllIndexes(ix) ==
    \A d, e \in ix.indexes :
        /\ Range(partitionPlays(ix, d)) = Range(partitionPlays(ix, e))
        /\ Len(partitionPlays(ix, d)) = Len(partitionPlays(ix, e))
        /\ Len(partitionPlays(ix, d)) = Cardinality(Range(partitionPlays(ix, d)))

\* C5: whatever drops and splits were made since buildIndexes, the tracked
\* characteristics of the index set, and of every sibling a split returned,
\* have partitions that hold exactly the same plays.
C5_TrackedIndexesAgree ==
    /\ SamePlaysInAllIndexes(storeIndexes)
    /\ pc = "view" => \A i \in DOMAIN splitParts : SamePlaysInAllIndexes(splitParts[i])

C5_Witness ==
    /\ pc = "view"
    /\ lastOp.op = "sibling"
    /\ Cardinality(dataView.indexes) >= 2
    /\ Len(indexedPlays(dataView)) >= 2

\* C6: dropIndex on an index set with one tracked characteristic changes
\* nothing, so the tracked set of the index set of a non-empty store, and of
\* every sibling split from it, is never empty.
C6_LastIndexIsKept ==
    [][/\ \A c \in PlayCharacteristics :
            (DropIndex(c) /\ Cardinality(dataView.indexes) = 1) =>
                (dataView' = dataView /\ pc' = pc /\ error' = error)
       /\ (pc = "view" /\ Cardinality(dataView.indexes) = 1) =>
            \A c \in PlayCharacteristics : dropIndex(dataView, c) = dataView
       /\ (pc' = "view" /\ data # <<>>) =>
            \A i \in 1 .. Len(siblings') + 1 :
                (<<dataView'>> \o siblings')[i].indexes # {}]_vars

C6_Witness ==
    /\ pc = "view"
    /\ lastOp.op = "drop"
    /\ dataView.indexes = {lastOp.arg}
    /\ Len(indexedPlays(dataView)) >= 2

(***************************************************************************)
(* Properties of the tree (checked under Spec)                             *)
(***************************************************************************)
\* the tree is the one the constructor made, not yet pruned
Unpruned == pc = "built" /\ lastOp.op = "build"

\* C7: in an unpruned tree, findPlays with the category values of a play of
\* the store ends without error in a leaf whose statistics have an entry
\* for the play's type, counting at least one play.
C7_RoundTrip ==
    Unpruned =>
        \A i \in DOMAIN data :
            LET found == findPlays(tree, situationOf(data[i])) IN
            /\ found.err = NoError
            /\ data[i].playType \in DOMAIN found.playData
            /\ getPlayCount(found.playData[data[i].playType]) >= 1

C7_Witness ==
    /\ Unpruned
    /\ ~isLeaf(tree)
    /\ \E i \in DOMAIN tree.childNodes : ~isLeaf(tree.childNodes[i])
    /\ \E i \in DOMAIN tree.categoryChildMapping :
          tree.categoryChildMapping[i] = -1
    /\ \A i \in DOMAIN data :
          getPlayCount(findPlays(tree, situationOf(data[i]))
                           .playData[data[i].playType]) >= 1

\* some decision node on the way of the situation has no child for its
\* category
RECURSIVE noChildOnPath(_, _)
noChildOnPath(node, situation) ==
    /\ ~isLeaf(node)
    /\ LET childIndex ==
               node.categoryChildMapping[situation[node.decisionValue] + 1]
       IN  \/ childIndex = -1
           \/ noChildOnPath(node.childNodes[childIndex + 1], situation)

\* the characteristics the decision nodes of a tree test
RECURSIVE decisionValuesOf(_)
decisionValuesOf(node) ==
    IF isLeaf(node) THEN {}
    ELSE {node.decisionValue} \cup
         UNION {decisionValuesOf(node.childNodes[i]) : i \in DOMAIN node.childNodes}

\* findPlays reads a situation only at the characteristics the tree tests:
\* every combination of category values of these, the others at their first
\* category
SituationsTestedBy(node) ==
    {[c \in PlayCharacteristics |-> IF c \in DOMAIN tested THEN tested[c] ELSE 0] :
        tested \in {t \in [decisionValuesOf(node) -> 0 .. 6] :
                       \A c \in DOMAIN t : t[c] < getCategoryCount(c)}}

\* C8: on a tree, pruned or not, findPlays ends without error for every
\* combination of category values, and answers the empty map when a decision
\* node on the way has no child for the situation's category.
C8_FindPlaysTotal ==
    pc = "built" =>
        \A situation \in SituationsTestedBy(tree) :
            LET found == findPlays(tree, situation) IN
            /\ found.err = NoError
            /\ ~isLeaf(tree) =>
                  (noChildOnPath(tree, situation) => found.playData = EmptyPlayData)

C8_Witness ==
    /\ pc = "built"
    /\ lastOp.op = "prune"
    /\ ~isLeaf(tree)
    /\ \E situation \in SituationsTestedBy(tree) :
          /\ noChildOnPath(tree, situation)
          /\ findPlays(tree, situation) = [err |-> NoError, playData |-> EmptyPlayData]
    /\ \E situation \in SituationsTestedBy(tree) :
          /\ ~noChildOnPath(tree, situation)
          /\ findPlays(tree, situation).playData # EmptyPlayData

\* C9: pruning is idempotent: a second call of pruneTree on a pruned tree
\* changes nothing.
C9_PruneIdempotent ==
    (pc = "built" /\ lastOp.op = "prune" /\ lastOp.arg >= 2) => tree = before

\* the play types of the plays an index set holds
playTypesOf(ix) == {data[p].playType : p \in Range(indexedPlays(ix))}

\* C10: built from an index set whose plays all have the same type, the
\* node is a leaf: no child, no characteristic dropped or split, and one
\* entry in its statistics, which counts all plays of the set.
C10_OnePlayTypeIsLeaf ==
    (Unpruned /\ Cardinality(playTypesOf(before)) = 1) =>
        /\ isLeaf(tree)
        /\ dataView = before
        /\ DOMAIN tree.playData = playTypesOf(before)
        /\ \A t \in DOMAIN tree.playData :
              getPlayCount(tree.playData[t]) = Len(indexedPlays(before))

C10_Witness ==
    /\ Unpruned
    /\ Cardinality(playTypesOf(before)) = 1
    /\ Len(indexedPlays(before)) >= 3
    /\ splitCountOf(before, down_number) >= 2
    /\ splitCountOf(before, distance_needed) >= 2
    /\ isLeaf(tree)

\* C12: buildIndexes on an empty store does nothing: no exception, the
\* index set of the store keeps no characteristic and no play, and the
\* summary statistics stay empty.
C12_EmptyStoreBuildIsNoOp ==
    (data = <<>> /\ pc # "load") =>
        /\ storeIndexes = EmptyPlayIndexSet
        /\ playSummaryStats = <<>>
        /\ pc \in {"indexed", "view"} => error = NoError
        /\ pc = "failed" => lastOp.op = "build"

C12_Witness ==
    /\ data = <<>>
    /\ pc = "indexed"
    /\ error = NoError
    /\ getIndexesAvailable(storeIndexes) = {}

\* the leaves of a tree
RECURSIVE leavesOf(_)
leavesOf(node) ==
    IF isLeaf(node) THEN {node}
    ELSE UNION {leavesOf(node.childNodes[i]) : i \in DOMAIN node.childNodes}

\* index sets that hold no play, whatever they track
IndexSetsWithoutPlays ==
    {[indexes |-> tracked,
      index |-> [c \in PlayCharacteristics |->
                    IF c \in tracked
                    THEN [k \in 1 .. getCategoryCount(c) |-> <<>>]
                    ELSE emptyCatIndex]] : tracked \in SUBSET PlayCharacteristics}

\* C13: the constructor of DecisionNode given an index set without plays
\* (as the one of a store whose indexes were built while it was empty) ends
\* with the exception "passed play store empty" and makes no node; no leaf
\* of a tree that was built has empty statistics.
C13_NoNodeWithoutPlays ==
    /\ (lastOp.op = "build" /\ indexedPlays(before) = <<>>) =>
          /\ pc = "failed"
          /\ error = "DecisionNode create failed, passed play store empty"
          /\ tree = NoNode
          /\ \A ix \in IndexSetsWithoutPlays :
                LET built == DecisionNode(ix, playSummaryStats) IN
                /\ built.err = "DecisionNode create failed, passed play store empty"
                /\ built.node = NoNode
    /\ Unpruned => \A leaf \in leavesOf(tree) : leaf.playData # EmptyPlayData

C13_Witness ==
    /\ lastOp.op = "build"
    /\ data = <<>>
    /\ before = EmptyPlayIndexSet
    /\ pc = "failed"
    /\ tree = NoNode

\* the characteristics of an index set whose gain ratio reaches the minimum
clearing(ix) ==
    {c \in getIndexesAvailable(ix) :
        ~ratioLess(infoRatioOf(ix, indexesToPlayCounts(ix), c), MinInformationGain)}

\* the largest member of a nonempty set of numbers
Last(S) == CHOOSE x \in S : \A y \in S : y <= x

childIndexSets(ix, decisionValue) ==
    LET chosen == findSplit(ix, indexesToPlayCounts(ix))
        split == splitIndexByCharacteristic(chosen.indexes, decisionValue)
    IN  <<split.self>> \o split.result

\* no node of the tree built from ix splits on a characteristic of rejected
\* or on one whose ratio at an ancestor within the tree is below the minimum
RECURSIVE avoidsRejected(_, _, _)
avoidsRejected(node, ix, rejected) ==
    IF isLeaf(node) THEN TRUE
    ELSE LET all == rejected \cup (getIndexesAvailable(ix) \ clearing(ix))
             parts == childIndexSets(ix, node.decisionValue)
         IN  /\ node.decisionValue \notin all
             /\ Len(parts) = Len(node.childNodes)
             /\ \A i \in DOMAIN node.childNodes :
                   avoidsRejected(node.childNodes[i], parts[i], all)

\* the characteristics that are below the minimum at the root and reach it
\* in the plays of one of its children
RECURSIVE regained(_, _)
regained(node, ix) ==
    IF isLeaf(node) THEN {}
    ELSE LET parts == childIndexSets(ix, node.decisionValue)
         IN  UNION {{c \in PlayCharacteristics :
                        /\ c \in getIndexesAvailable(ix) \ clearing(ix)
                        /\ Cardinality(NonEmptyPositions(getIndex(ix, c))) > 1
                        /\ LET plays == indexedPlays(parts[i])
                               cats == {getValue(data[p], c) : p \in Range(plays)}
                               types == {data[p].playType : p \in Range(plays)}
                           IN  Cardinality(cats) > 1 /\ Cardinality(types) > 1}
                    : i \in DOMAIN parts}

\* C16: a characteristic whose gain ratio at a node is below 0.02 is the
\* split characteristic neither of that node nor of any node below it.
C16_RejectedNeverSplits ==
    Unpruned => avoidsRejected(tree, before, {})

C16_Witness ==
    /\ Unpruned
    /\ ~isLeaf(tree)
    /\ regained(tree, before) # {}

\* the last call of pruneTree merged the children of the root, all leaves
RootMerged ==
    /\ pc = "built"
    /\ lastOp.op = "prune"
    /\ ~isLeaf(before)
    /\ \A i \in DOMAIN before.childNodes : isLeaf(before.childNodes[i])
    /\ isLeaf(tree)

\* C20: after pruneTree merged the children of a node, every entry of the
\* leaf holds as share of condition plays the floor of 1000 times its play
\* count over the play count of the whole leaf.
C20_MergedSharesOfMergedTotal ==
    RootMerged =>
        \A t \in DOMAIN tree.playData :
            getPercentOfConditionPlays(tree.playData[t]) =
                (1000 * getPlayCount(tree.playData[t])) \div mapPlayCount(tree.playData)

\* the number of places of a sequence that hold x
occurrences(x, seq) == Cardinality({i \in DOMAIN seq : seq[i] = x})

\* the children of the node before the merge that hold the play type
holders(playType) ==
    {i \in DOMAIN before.childNodes : playType \in DOMAIN before.childNodes[i].playData}

\* C11: the statistics of merged leaves hold, for each play type, the sum
\* of the play counts and the sum of the turnover counts of the leaves, and
\* as distances the sorted union (with repetitions) of their distances; a
\* play type held by one leaf only keeps its count.
C11_MergeAddsCountsAndDistances ==
    RootMerged =>
        /\ DOMAIN tree.playData = {t \in PlayTypes : holders(t) # {}}
        /\ \A t \in DOMAIN tree.playData :
             LET merged == tree.playData[t]
                 parts == [i \in DOMAIN before.childNodes |->
                             IF i \in holders(t) THEN before.childNodes[i].playData[t]
                             ELSE [playDistances |-> <<>>, turnoverCount |-> 0]]
             IN  /\ getPlayCount(merged) =
                        SumSeq([i \in DOMAIN parts |-> Len(parts[i].playDistances)])
                 /\ merged.turnoverCount =
                        SumSeq([i \in DOMAIN parts |-> parts[i].turnoverCount])
                 /\ \A i, j \in DOMAIN merged.playDistances :
                        i < j => merged.playDistances[i] <= merged.playDistances[j]
                 /\ \A d \in Range(merged.playDistances)
                           \cup UNION {Range(parts[i].playDistances) : i \in DOMAIN parts} :
                        occurrences(d, merged.playDistances) =
                            SumSeq([i \in DOMAIN parts |->
                                       occurrences(d, parts[i].playDistances)])

C11_Witness ==
    /\ RootMerged
    /\ Cardinality(holders(run_left)) = 2
    /\ Cardinality(holders(punt)) = 1
    /\ \A i \in holders(run_left) : getPlayCount(before.childNodes[i].playData[run_left]) = 1
    /\ tree.playData[run_left].playDistances = <<3, 7>>
    /\ tree.playData[run_left].turnoverCount = 1
    /\ getPlayCount(tree.playData[punt]) = 1

\* the children of the node are leaves that the tests of pruneTree reject
\* whatever totalPlayCount starts from
leavesRejected(node) ==
    /\ ~isLeaf(node)
    /\ \A i \in DOMAIN node.childNodes : isLeaf(node.childNodes[i])
    /\ \A garbage \in IndeterminateTotals : ~shouldPrune(node.childNodes, garbage)

\* the children of the node are leaves that the tests of pruneTree accept
\* whatever totalPlayCount starts from
leavesAccepted(node) ==
    /\ ~isLeaf(node)
    /\ \A i \in DOMAIN node.childNodes : isLeaf(node.childNodes[i])
    /\ \A garbage \in IndeterminateTotals : shouldPrune(node.childNodes, garbage)

\* a decision node below which some decision node survives every pruning
RECURSIVE mustStay(_)
mustStay(node) ==
    /\ ~isLeaf(node)
    /\ \/ leavesRejected(node)
       \/ \E i \in DOMAIN node.childNodes : mustStay(node.childNodes[i])

\* new is old after one call of pruneTree that kept the order: children
\* first, the node itself only when they are all leaves, nothing else changed
RECURSIVE pruneOrderKept(_, _)
pruneOrderKept(old, new) ==
    IF isLeaf(old) THEN new = old
    ELSE IF isLeaf(new)
    THEN \A i \in DOMAIN old.childNodes : ~mustStay(old.childNodes[i])
    ELSE /\ new = [old EXCEPT !.childNodes = new.childNodes]
         /\ Len(new.childNodes) = Len(old.childNodes)
         /\ \A i \in DOMAIN old.childNodes :
               pruneOrderKept(old.childNodes[i], new.childNodes[i])
         /\ ~leavesAccepted(new)

\* C17: pruneTree turns a decision node into a leaf only when all its
\* children are leaves once they were pruned themselves; every decision
\* node is visited, also below a node that stays a decision node; and a
\* node left with a child that is no leaf keeps all but its pruned children.
C17_ChildrenPrunedFirst ==
    (pc = "built" /\ lastOp.op = "prune") => pruneOrderKept(before, tree)

C17_Witness ==
    /\ pc = "built"
    /\ lastOp.op = "prune"
    /\ ~isLeaf(tree)
    /\ Len(tree.childNodes) = 2
    /\ ~isLeaf(tree.childNodes[1])
    /\ ~isLeaf(before.childNodes[2])
    /\ isLeaf(tree.childNodes[2])
    /\ tree = [before EXCEPT !.childNodes[2] = tree.childNodes[2]]

\* a tree of two levels that one call of pruneTree turned into a leaf
C17_WitnessCollapse ==
    /\ pc = "built"
    /\ lastOp.op = "prune"
    /\ \E i \in DOMAIN before.childNodes : ~isLeaf(before.childNodes[i])
    /\ isLeaf(tree)

\* the play types that occur once in some child and more than once in none
onceOnly(childNodes) ==
    {t \in PlayTypes :
        /\ \E i \in DOMAIN childNodes :
              /\ t \in DOMAIN childNodes[i].playData
              /\ getPlayCount(childNodes[i].playData[t]) = 1
        /\ \A i \in DOMAIN childNodes :
              t \in DOMAIN childNodes[i].playData =>
                  getPlayCount(childNodes[i].playData[t]) <= 1}

\* the play types significant in some children and not in all of them
inSomeNotAll(childNodes) ==
    {t \in PlayTypes :
        /\ \E i \in DOMAIN childNodes : t \in significantPlays(childNodes[i])
        /\ \E i \in DOMAIN childNodes : t \notin significantPlays(childNodes[i])}

\* the plays of the given types in all children together
playsOfTypes(types, childNodes) ==
    SumSeq([i \in DOMAIN childNodes |->
              SumSeq([k \in 1 .. getPlayTypeCount |->
                        IF (k - 1) \in types /\ (k - 1) \in DOMAIN childNodes[i].playData
                        THEN getPlayCount(childNodes[i].playData[k - 1]) ELSE 0])])

\* the last call of pruneTree merged the children of the root on its third
\* test: too few leaves of a single play, and significant play types that
\* differ between the children
MergedByThirdTest ==
    /\ RootMerged
    /\ singlePlayLeafCount(before.childNodes) < Len(before.childNodes) - 1
    /\ inSomeNotAll(before.childNodes) # {}

\* C18: the third test merges only if the plays of the compared play types
\* in all children together are at most half of all plays of the children.
C18_ThirdTestComparesOccurrences ==
    MergedByThirdTest =>
        2 * playsOfTypes(inSomeNotAll(before.childNodes), before.childNodes)
            <= SumSeq([i \in DOMAIN before.childNodes |->
                          mapPlayCount(before.childNodes[i].playData)])

\* C19 as stated: the third test merges only if the play types that occur
\* once in some child and more than once in none are exactly those that
\* are significant in some but not all children.
C19_Original ==
    MergedByThirdTest =>
        onceOnly(before.childNodes) = inSomeNotAll(before.childNodes)

\* C19: the third test merges only if every play type that is significant
\* in some but not all children occurs once in some child and more than
\* once in none; other play types may occur once only as well.
C19_ThirdTestNeedsSubset ==
    MergedByThirdTest =>
        inSomeNotAll(before.childNodes) \subseteq onceOnly(before.childNodes)

C19_Witness ==
    /\ MergedByThirdTest
    /\ inSomeNotAll(before.childNodes) \subseteq onceOnly(before.childNodes)
    /\ onceOnly(before.childNodes) # inSomeNotAll(before.childNodes)

\* C14: an insert after buildIndexes leaves the indexes and the summary
\* statistics of the store as they were, and the tree built from them is
\* the tree of the plays inserted before buildIndexes.
C14_LateInsertsInvisible ==
    [][(lastOp' # lastOp /\ lastOp'.op = "late") =>
          /\ storeIndexes' = storeIndexes
          /\ playSummaryStats' = playSummaryStats
          /\ DecisionNode(storeIndexes, playSummaryStats)'
                = DecisionNode(storeIndexes, playSummaryStats)]_vars

\* the last call of pruneTree found the root a decision node over leaves
RootOverLeaves ==
    /\ pc = "built"
    /\ lastOp.op = "prune"
    /\ ~isLeaf(before)
    /\ \A i \in DOMAIN before.childNodes : isLeaf(before.childNodes[i])

\* the children whose statistics are one play of one play type
singlePlayLeaves(childNodes) ==
    {i \in DOMAIN childNodes :
        \E t \in PlayTypes :
            /\ DOMAIN childNodes[i].playData = {t}
            /\ Len(childNodes[i].playData[t].playDistances) = 1}

\* C21: a node over leaves is merged into a leaf whenever all its children
\* but at most one hold one play of one play type; with two children one
\* such child is enough.
C21_SinglePlayLeavesMerge ==
    (RootOverLeaves /\ Cardinality(singlePlayLeaves(before.childNodes))
                          >= Len(before.childNodes) - 1)
        => /\ isLeaf(tree)
           /\ tree.playData # EmptyPlayData

C21_Witness ==
    /\ RootOverLeaves
    /\ Len(before.childNodes) = 2
    /\ Cardinality(singlePlayLeaves(before.childNodes)) = 1
    /\ isLeaf(tree)

\* the largest play count and the largest share of node total in a leaf
maxPlayCount(leaf) ==
    Last({getPlayCount(leaf.playData[t]) : t \in DOMAIN leaf.playData})

maxShare(leaf) ==
    Last({getPercentOfConditionPlays(leaf.playData[t]) : t \in DOMAIN leaf.playData})

\* significant play types, taking "three quarters of the maximum share" as
\* the exact fraction
significantExact(leaf) ==
    IF maxPlayCount(leaf) <= 5 THEN DOMAIN leaf.playData
    ELSE {t \in DOMAIN leaf.playData :
             4 * getPercentOfConditionPlays(leaf.playData[t]) >= 3 * maxShare(leaf)}

\* significant play types, with three quarters of the maximum share rounded
\* down to a whole number of thousandths
significantRounded(leaf) ==
    IF maxPlayCount(leaf) <= 5 THEN DOMAIN leaf.playData
    ELSE {t \in DOMAIN leaf.playData :
             getPercentOfConditionPlays(leaf.playData[t]) >= (3 * maxShare(leaf)) \div 4}

\* the first test of pruneTree fails on the children of the root
NotBySinglePlays ==
    /\ RootOverLeaves
    /\ Cardinality(singlePlayLeaves(before.childNodes)) < Len(before.childNodes) - 1

\* C22 as stated: with the significant play types of a child those whose
\* share is at least three quarters of the largest share of the child (all
\* its types when no type has more than 5 plays), a node over leaves that
\* the first test did not merge is merged whenever the significant types of
\* all children are the same.
C22_Original ==
    (NotBySinglePlays /\ \A i, j \in DOMAIN before.childNodes :
         significantExact(before.childNodes[i]) = significantExact(before.childNodes[j]))
        => isLeaf(tree)

\* C22: the same with the bound taken as three quarters of the largest
\* share rounded down, so that a share equal to the rounded bound counts as
\* significant.
C22_SameSignificantPlaysMerge ==
    (NotBySinglePlays /\ \A i, j \in DOMAIN before.childNodes :
         significantRounded(before.childNodes[i]) = significantRounded(before.childNodes[j]))
        => isLeaf(tree)

C22_Witness ==
    /\ NotBySinglePlays
    /\ \E i \in DOMAIN before.childNodes : maxPlayCount(before.childNodes[i]) > 5
    /\ \E i \in DOMAIN before.childNodes :
          significantRounded(before.childNodes[i]) # DOMAIN before.childNodes[i].playData
    /\ \A i, j \in DOMAIN before.childNodes :
         significantRounded(before.childNodes[i]) = significantRounded(before.childNodes[j])
    /\ isLeaf(tree)

isDecisionVariant(node) ==
    /\ Len(node.childNodes) >= 2
    /\ node.playData = EmptyPlayData
    /\ \A c \in DOMAIN node.categoryChildMapping :
          \/ node.categoryChildMapping[c] = -1
          \/ /\ node.categoryChildMapping[c] >= 0
             /\ node.categoryChildMapping[c] < Len(node.childNodes)

\* the node is a leaf: no children and statistics of some play type
isLeafVariant(node) ==
    /\ node.childNodes = <<>>
    /\ node.playData # EmptyPlayData

\* every node of the tree is of one of the two variants
RECURSIVE everyNodeOneVariant(_)
everyNodeOneVariant(node) ==
    /\ isDecisionVariant(node) # isLeafVariant(node)
    /\ \A i \in DOMAIN node.childNodes : everyNodeOneVariant(node.childNodes[i])

\* new has a leaf wherever old has one, and below a node that is a decision
\* node in both the children correspond
RECURSIVE variantsOnlyToLeaf(_, _)
variantsOnlyToLeaf(old, new) ==
    IF isLeaf(old) THEN new = old
    ELSE \/ isLeafVariant(new)
         \/ /\ Len(new.childNodes) = Len(old.childNodes)
            /\ \A i \in DOMAIN old.childNodes :
                  variantsOnlyToLeaf(old.childNodes[i], new.childNodes[i])

\* C24: after the build and after every call of pruneTree each node is
\* either a decision node (two or more children, no statistics, categories
\* mapped to -1 or to a child) or a leaf (no children, statistics); a call
\* of pruneTree changes nodes from decision node to leaf only.
C24_NodesAreDecisionOrLeaf ==
    pc = "built" =>
        /\ everyNodeOneVariant(tree)
        /\ lastOp.op = "prune" => variantsOnlyToLeaf(before, tree)

C24_Witness ==
    /\ pc = "built"
    /\ lastOp.op = "prune"
    /\ isDecisionVariant(tree)
    /\ \E i \in DOMAIN tree.childNodes :
          /\ isDecisionVariant(before.childNodes[i])
          /\ isLeafVariant(tree.childNodes[i])
    /\ \E i \in DOMAIN tree.childNodes : isDecisionVariant(tree.childNodes[i])
    /\ \E c \in DOMAIN tree.categoryChildMapping : tree.categoryChildMapping[c] = -1

\* the number of plays of the type among the plays at the given positions
playsOfType(playType, positions) ==
    Cardinality({k \in DOMAIN positions : data[positions[k]].playType = playType})

\* the statistics are those of the plays at the given positions: an entry
\* for each play type among them, with its number of plays and its shares
\* of the plays at the positions and of the plays of its type in the store
detailsOf(playData, positions) ==
    /\ DOMAIN playData = {t \in PlayTypes : playsOfType(t, positions) > 0}
    /\ \A t \in DOMAIN playData :
          /\ getPlayCount(playData[t]) = playsOfType(t, positions)
          /\ playData[t].percentOfConditionPlays =
                 (1000 * playsOfType(t, positions)) \div Len(positions)
          /\ playData[t].percentOfTypePlays =
                 (1000 * playsOfType(t, positions))
                     \div playsOfType(t, [p \in DOMAIN data |-> p])

\* C25: the statistics buildDetailedData makes for an index set have an
\* entry for a play type exactly when the set holds a play of the type,
\* with the number of these plays as play count, floor(1000 * count / plays
\* of the set) as share of node total and floor(1000 * count / plays of the
\* type in the store) as share of type total.
C25_DetailedDataOfTheSubset ==
    Unpruned =>
        IF isLeaf(tree) THEN detailsOf(tree.playData, indexedPlays(before))
        ELSE \A i \in DOMAIN tree.childNodes :
                isLeaf(tree.childNodes[i]) =>
                    detailsOf(tree.childNodes[i].playData,
                              indexedPlays(childIndexSets(before, tree.decisionValue)[i]))

C25_Witness ==
    /\ Unpruned
    /\ ~isLeaf(tree)
    /\ \E i \in DOMAIN tree.childNodes :
          /\ isLeaf(tree.childNodes[i])
          /\ DOMAIN tree.childNodes[i].playData = {run_left, punt}
          /\ getPlayCount(tree.childNodes[i].playData[run_left]) = 3
          /\ tree.childNodes[i].playData[run_left].percentOfConditionPlays = 428
          /\ tree.childNodes[i].playData[run_left].percentOfTypePlays = 333

\* the plays of the type the leaves at or below the node hold, leaf by leaf
RECURSIVE leafPlayCount(_, _)
leafPlayCount(node, playType) ==
    IF isLeaf(node)
    THEN IF playType \in DOMAIN node.playData
         THEN getPlayCount(node.playData[playType]) ELSE 0
    ELSE SumSeq([i \in DOMAIN node.childNodes |->
                    leafPlayCount(node.childNodes[i], playType)])

\* C26: after the build from a store with plays and after any number of
\* pruneTree calls, the play counts the leaves hold for a play type add up
\* to the number of plays of the type in the store.
C26_LeavesPartitionThePlays ==
    pc = "built" =>
        \A t \in PlayTypes :
            leafPlayCount(tree, t) = playsOfType(t, [p \in DOMAIN data |-> p])

C26_Witness ==
    /\ pc = "built"
    /\ lastOp.op = "prune"
    /\ ~isLeaf(tree)
    /\ \E i \in DOMAIN tree.childNodes :
          /\ ~isLeaf(before.childNodes[i])
          /\ isLeaf(tree.childNodes[i])
    /\ Cardinality({t \in PlayTypes : leafPlayCount(tree, t) > 0}) >= 3
    /\ \E t \in PlayTypes : leafPlayCount(tree, t) >= 2

\* no characteristic of used is the split characteristic of the node or of
\* a node below it, and none is the split characteristic of two nodes of a
\* path from the node to a leaf
RECURSIVE splitsOnce(_, _)
splitsOnce(node, used) ==
    IF isLeaf(node) THEN TRUE
    ELSE /\ node.decisionValue \in PlayCharacteristics \ used
         /\ \A i \in DOMAIN node.childNodes :
               splitsOnce(node.childNodes[i], used \cup {node.decisionValue})

\* the largest number of decision nodes on a path from the node to a leaf
RECURSIVE decisionDepth(_)
decisionDepth(node) ==
    IF isLeaf(node) THEN 0
    ELSE 1 + Last({decisionDepth(node.childNodes[i]) :
                      i \in DOMAIN node.childNodes})

\* in the tree built from ix, the index sets of the children of a decision
\* node no longer track its split characteristic, unless it is the only
\* one they track: then they hold plays of one of its categories only, with
\* a gain ratio below the minimum
RECURSIVE splitSpent(_, _)
splitSpent(node, ix) ==
    IF isLeaf(node) THEN TRUE
    ELSE LET parts == childIndexSets(ix, node.decisionValue)
         IN  /\ Len(parts) = Len(node.childNodes)
             /\ \A i \in DOMAIN parts :
                   /\ \/ node.decisionValue \notin getIndexesAvailable(parts[i])
                      \/ /\ getIndexesAvailable(parts[i]) = {node.decisionValue}
                         /\ Cardinality(NonEmptyPositions(
                                  getIndex(parts[i], node.decisionValue))) = 1
                         /\ ratioLess(infoRatioOf(parts[i],
                                                  indexesToPlayCounts(parts[i]),
                                                  node.decisionValue),
                                      MinInformationGain)
                   /\ splitSpent(node.childNodes[i], parts[i])

\* a decision node of the tree built from ix split on the only
\* characteristic its index set still tracked
RECURSIVE splitOnLastTracked(_, _)
splitOnLastTracked(node, ix) ==
    IF isLeaf(node) THEN FALSE
    ELSE LET parts == childIndexSets(ix, node.decisionValue)
         IN  \/ \A i \in DOMAIN parts :
                   getIndexesAvailable(parts[i]) = {node.decisionValue}
             \/ \E i \in DOMAIN parts :
                   /\ i \in DOMAIN node.childNodes
                   /\ splitOnLastTracked(node.childNodes[i], parts[i])

\* C27: no characteristic is the split characteristic of two nodes of a
\* path from the root to a leaf, so a path has at most 5 decision nodes;
\* this also holds where the split characteristic stayed tracked as the
\* only one, because the plays of a child are then all in one of its
\* categories and its gain ratio there is below the minimum.
C27_EachCharacteristicSplitsOnce ==
    /\ pc = "built" => splitsOnce(tree, {}) /\ decisionDepth(tree) <= 5
    /\ Unpruned => splitSpent(tree, before)

C27_Witness ==
    /\ Unpruned
    /\ decisionDepth(tree) = 2
    /\ splitOnLastTracked(tree, before)
    /\ \E i \in DOMAIN tree.childNodes :
          /\ ~isLeaf(tree.childNodes[i])
          /\ getIndexesAvailable(childIndexSets(before, tree.decisionValue)[i])
                 = {tree.childNodes[i].decisionValue}

\* C28: with at least one play in the store, buildIndexes, the constructor
\* of the tree and pruneTree end without an exception: none of them reports
\* empty indexes, an empty play store or a failed split.
C28_NoErrorWithPlays ==
    data # <<>> => error = NoError /\ pc # "failed"

C28_Witness ==
    /\ data # <<>>
    /\ pc = "built"
    /\ lastOp.op = "prune"
    /\ error = NoError
    /\ ~isLeaf(before)
    /\ \E i \in DOMAIN before.childNodes : ~isLeaf(before.childNodes[i])

\* the number of pruneTree calls made on the tree
prunesMade == IF lastOp.op = "prune" THEN lastOp.arg ELSE 0

sharesDefined(playData) ==
    /\ mapPlayCount(playData) >= 1
    /\ \A t \in DOMAIN playData :
          /\ playData[t].overallStats = playSummaryStats[t + 1]
          /\ playData[t].overallStats.totalCount >= 1
          /\ getPlayCount(playData[t]) \in 1 .. playData[t].overallStats.totalCount
          /\ getPlayCount(playData[t]) <= mapPlayCount(playData)
          /\ playData[t].percentOfConditionPlays \in 0 .. 1000
          /\ playData[t].percentOfTypePlays \in 0 .. 1000

\* C30: in the statistics of every leaf, made by the constructor or by the
\* merge of pruneTree, the divisors of the shares (the plays of the leaf,
\* the plays of the type in the store) are positive and both shares are
\* within 0 .. 1000.
C30_SharesWithinRange ==
    pc = "built" => \A leaf \in leavesOf(tree) : sharesDefined(leaf.playData)

C30_Witness ==
    /\ pc = "built"
    /\ lastOp.op = "prune"
    /\ ~isLeaf(before)
    /\ isLeaf(tree)
    /\ DOMAIN tree.playData = {run_left, punt}
    /\ mapPlayCount(tree.playData) >= 10
    /\ tree.playData[run_left].percentOfConditionPlays \in 1 .. 999
    /\ tree.playData[punt].percentOfTypePlays = 1000
    /\ sharesDefined(tree.playData)

====
